---- MODULE Spec2Model ----
(***************************************************************************)
(* State-machine model of phoc's view, cursor, view-child and touch-point  *)
(* bookkeeping (src/view.c, src/xdg-surface.c, src/cursor.c,               *)
(* src/view-child.c).                                                      *)
(*                                                                         *)
(* Coordinates are layout pixels in a scaled-down layout.  The view scale  *)
(* (scale-to-fit) is 1.0 throughout, so "x * scale" and "x / scale" of the *)
(* source are written "x".  Double-valued coordinates that may be          *)
(* half-integers are carried doubled (suffix 2).                           *)
(***************************************************************************)
EXTENDS Integers, Sequences, FiniteSets, TLC

VARIABLES
  views,            \* view id -> PhocView fields
  fullscreen_view,  \* output id -> view id or NULL (PhocOutput.fullscreen_view)
  outputs,          \* outputs currently in the layout
  focus,            \* the seat's focus view or NULL
  maximize,         \* desktop->maximize (auto-maximize policy)
  effects,          \* outward calls made by the last handler
  track,            \* history of the last maximize/fullscreen round trip
  cursor,           \* PhocCursor / PhocCursorPrivate fields
  touch_points,     \* PhocCursorPrivate.touch_points: id -> point
  seat_touch,       \* wlr_seat touch points and seat->touch_id
  children,         \* view-child id -> PhocViewChild fields
  tree,             \* view id -> view->parent and view->stack (transient-for tree)
  probe,            \* arguments and result of the last query of a pure function
  pointer,          \* PhocCursor pointer focus, constraint and cursor image fields
  layers,           \* layer surface id -> PhocLayerSurface fields
  steps             \* number of handlers run so far

vars == <<views, fullscreen_view, outputs, focus, maximize, effects, track,
          cursor, touch_points, seat_touch, children, tree, probe, pointer, layers,
          steps>>

\* the null pointer; views and outputs are numbered from 1
NULL == 0

\* the element of a one-element set
The(S) == CHOOSE x \in S : TRUE

----------------------------------------------------------------------------
(* Bounds *)

NumViews == 2
MaxSerial == 2
\* window of layout coordinates a view's box and saved box are followed in
MaxCoord == 10
\* number of handler invocations followed in the view state machine
MaxSteps == 7

\* view children (subsurfaces) of a view
NumChildren == 3
NumTreeViews == 3

Views == 1..NumViews
ChildIds == 1..NumChildren
TreeViews == 1..NumTreeViews
Outputs == {1, 2}

----------------------------------------------------------------------------
(* Output layout: output 1 is landscape at the origin, output 2 is        *)
(* portrait to its right.  Each output reserves a one-pixel top strip.    *)

Box(x, y, w, h) == [x |-> x, y |-> y, width |-> w, height |-> h]

wlr_output_layout_get_box(o) ==
  IF o = 1 THEN Box(0, 0, 6, 4) ELSE Box(6, 0, 4, 6)

usable_area(o) ==
  IF o = 1 THEN Box(0, 1, 6, 3) ELSE Box(0, 1, 4, 5)

wlr_box_empty(b) == b.width <= 0 \/ b.height <= 0

TruncDiv2(n) == IF n >= 0 THEN n \div 2 ELSE -((-n) \div 2)

Clamp2(p2, lo, len) ==
  IF p2 < 2 * lo THEN 2 * lo
  ELSE IF p2 > 2 * (lo + len - 1) THEN 2 * (lo + len - 1) ELSE p2

Dist2(o, x2, y2) ==
  LET b == wlr_output_layout_get_box(o)
      dx == x2 - Clamp2(x2, b.x, b.width)
      dy == y2 - Clamp2(y2, b.y, b.height)
  IN dx * dx + dy * dy

\* wlr_output_layout_closest_point followed by wlr_output_layout_output_at
ClosestOutput(outs, x2, y2) ==
  IF outs = {} THEN NULL
  ELSE CHOOSE o \in outs :
         \A p \in outs : Dist2(o, x2, y2) < Dist2(p, x2, y2)
                         \/ (Dist2(o, x2, y2) = Dist2(p, x2, y2) /\ o <= p)

wlr_output_layout_output_at(outs, x, y) ==
  LET hit == {o \in outs :
                LET b == wlr_output_layout_get_box(o)
                IN x >= b.x /\ x < b.x + b.width /\ y >= b.y /\ y < b.y + b.height}
  IN IF hit = {} THEN NULL ELSE CHOOSE o \in hit : \A p \in hit : o <= p

----------------------------------------------------------------------------
(* View predicates *)

view_is_fullscreen(V) == V.fullscreen_output # NULL
view_is_floating(V) == V.state = "FLOATING" /\ ~view_is_fullscreen(V)
view_is_maximized(V) == V.state = "MAXIMIZED" /\ ~view_is_fullscreen(V)
view_is_tiled(V) == V.state = "TILED" /\ ~view_is_fullscreen(V)

view_get_output(V) ==
  ClosestOutput(outputs, 2 * V.box.x + V.box.width, 2 * V.box.y + V.box.height)

----------------------------------------------------------------------------
(* PhocView fields (view.h / xdg-surface.h), plus the toplevel's configure *)
(* bookkeeping kept by wlroots: the scheduled size and the configures sent *)
(* but not yet acked.  Serials are kept relative to the serial acked by    *)
(* the current surface state: surface->current.configure_serial is         *)
(* numbered 1 and the i-th configure in flight has serial 1 + i.  The code *)
(* only compares serials, and a pending serial below the acked one behaves *)
(* as no pending serial (0).                                               *)

\* surface->current.configure_serial in the relative numbering
configure_serial == 1

NoPending == [update_x |-> FALSE, update_y |-> FALSE,
              x |-> 0, y |-> 0, width |-> 0, height |-> 0]

\* phoc_view_init
phoc_view_init(hasParent) ==
  [life |-> "unmapped",
   box |-> Box(0, 0, 0, 0),
   saved |-> Box(0, 0, 0, 0),
   state |-> "FLOATING",
   tile_direction |-> "LEFT",
   fullscreen_output |-> NULL,
   pending_centering |-> FALSE,
   pending_move_resize |-> NoPending,
   pending_serial |-> 0,
   scheduled |-> [width |-> 0, height |-> 0],
   confs |-> << >>,
   geom |-> 0,
   saved_geometry |-> 0,
   has_parent |-> hasParent,
   calls |-> {}]

NoView == [phoc_view_init(FALSE) EXCEPT !.life = "none"]

Call(V, c) == [V EXCEPT !.calls = @ \cup {c}]

\* calls on the toplevel that schedule a configure event
ConfigureCalls ==
  {"set_size", "set_maximized", "set_tiled", "set_fullscreen", "set_activated"}

\* the handler returns; the configure scheduled by it, if any, is sent
Finish(V) ==
  IF V.calls \cap ConfigureCalls # {}
  THEN [V EXCEPT !.confs = Append(@, V.scheduled), !.calls = {}]
  ELSE [V EXCEPT !.calls = {}]

phoc_view_is_mapped(V) == V.life = "mapped"

phoc_view_damage_whole(V) == Call(V, "damage")

view_update_position(V, x, y) ==
  IF V.box.x = x /\ V.box.y = y THEN V
  ELSE phoc_view_damage_whole([V EXCEPT !.box.x = x, !.box.y = y])

\* xdg-surface.c resize()
resize(V, width, height) ==
  IF V.scheduled.width = width /\ V.scheduled.height = height THEN V
  ELSE Call([V EXCEPT !.scheduled = [width |-> width, height |-> height]],
            "set_size")

\* xdg-surface.c move_resize()
move_resize(V, x, y, width, height) ==
  LET update_x == x # V.box.x
      update_y == y # V.box.y
      V1 == [V EXCEPT !.pending_move_resize =
               [update_x |-> update_x, update_y |-> update_y,
                x |-> x, y |-> y, width |-> width, height |-> height]]
  IN IF V.scheduled.width = width /\ V.scheduled.height = height
     THEN view_update_position(V1, x, y)
     ELSE Call([V1 EXCEPT !.scheduled = [width |-> width, height |-> height],
                          !.pending_serial = configure_serial + Len(V.confs) + 1],
               "set_size")

\* phoc_view_move; x2, y2 are the doubled double-valued target
phoc_view_move(V, x2, y2) ==
  IF 2 * V.box.x = x2 /\ 2 * V.box.y = y2 THEN V
  ELSE view_update_position(
         [V EXCEPT !.pending_move_resize.update_x = FALSE,
                   !.pending_move_resize.update_y = FALSE,
                   !.pending_centering = FALSE],
         TruncDiv2(x2), TruncDiv2(y2))

phoc_view_resize(V, width, height) == resize(V, width, height)

phoc_view_move_resize(V, x, y, width, height) ==
  LET update_x == x # V.box.x
      update_y == y # V.box.y
      update_width == width # V.box.width
      update_height == height # V.box.height
      V1 == Call([V EXCEPT !.pending_move_resize.update_x = FALSE,
                           !.pending_move_resize.update_y = FALSE],
                 "move_resize")
  IN IF ~update_x /\ ~update_y THEN phoc_view_resize(V1, width, height)
     ELSE IF ~update_width /\ ~update_height THEN phoc_view_move(V1, 2 * x, 2 * y)
     ELSE move_resize(V1, x, y, width, height)

\* view_save
view_save(V) ==
  IF ~view_is_floating(V) THEN V
  ELSE [V EXCEPT !.saved = Box(V.box.x + V.geom, V.box.y + V.geom,
                               V.box.width, V.box.height)]

----------------------------------------------------------------------------
(* Maximize, tile, restore *)

\* usable area of output o in layout coordinates
UsableInLayout(o) ==
  LET ob == wlr_output_layout_get_box(o)
      ua == usable_area(o)
  IN Box(ua.x + ob.x, ua.y + ob.y, ua.width, ua.height)

\* the output phoc_view_get_maximized_box / phoc_view_get_tiled_box settle on
TargetOutput(V, output) == IF output # NULL THEN output ELSE view_get_output(V)

\* TRUE return of phoc_view_get_maximized_box / phoc_view_get_tiled_box
HasTargetBox(V, output) ==
  ~view_is_fullscreen(V) /\ TargetOutput(V, output) # NULL

\* the box phoc_view_get_maximized_box fills in
phoc_view_get_maximized_box(V, output) == UsableInLayout(TargetOutput(V, output))

view_arrange_maximized(V, output) ==
  LET box == phoc_view_get_maximized_box(V, output)
  IN IF ~HasTargetBox(V, output) THEN V
     ELSE phoc_view_move_resize(V, box.x - V.geom, box.y - V.geom,
                                box.width, box.height)

\* the box phoc_view_get_tiled_box fills in
phoc_view_get_tiled_box(V, dir, output) ==
  LET ua == UsableInLayout(TargetOutput(V, output))
      x == IF dir = "LEFT" THEN ua.x ELSE ua.x + ua.width \div 2
  IN Box(x, ua.y, ua.width \div 2, ua.height)

view_arrange_tiled(V, output) ==
  LET box == phoc_view_get_tiled_box(V, V.tile_direction, output)
  IN IF ~HasTargetBox(V, output) THEN V
     ELSE phoc_view_move_resize(V, box.x - V.geom, box.y - V.geom,
                                box.width, box.height)

phoc_view_want_auto_maximize(V) == maximize /\ ~V.has_parent

view_maximize(V, output) ==
  IF view_is_maximized(V) /\ view_get_output(V) = output THEN V
  ELSE IF view_is_fullscreen(V) THEN V
  ELSE LET V1 == Call(Call(V, "set_tiled"), "set_maximized")
           V2 == view_save(V1)
           V3 == [V2 EXCEPT !.state = "MAXIMIZED"]
       IN view_arrange_maximized(V3, output)

\* mutation: maximize whatever the policy says
view_auto_maximize_always(V) == view_maximize(V, NULL)

view_auto_maximize(V) ==
  IF phoc_view_want_auto_maximize(V) THEN view_maximize(V, NULL) ELSE V

\* mutation: the auto-maximize policy does not hold a view back
view_restore_despite_policy(V) ==
  IF ~view_is_maximized(V) /\ ~view_is_tiled(V) THEN V
  ELSE LET V1 == [V EXCEPT !.state = "FLOATING"]
           V2 == IF ~wlr_box_empty(V.saved)
                 THEN phoc_view_move_resize(V1, V.saved.x - V.geom,
                                            V.saved.y - V.geom,
                                            V.saved.width, V.saved.height)
                 ELSE [phoc_view_resize(V1, 0, 0) EXCEPT !.pending_centering = TRUE]
       IN Call(Call(V2, "set_maximized"), "set_tiled")

view_restore(V) ==
  IF ~view_is_maximized(V) /\ ~view_is_tiled(V) THEN V
  ELSE IF phoc_view_want_auto_maximize(V) THEN V
  ELSE LET V1 == [V EXCEPT !.state = "FLOATING"]
           V2 == IF ~wlr_box_empty(V.saved)
                 THEN phoc_view_move_resize(V1, V.saved.x - V.geom,
                                            V.saved.y - V.geom,
                                            V.saved.width, V.saved.height)
                 ELSE [phoc_view_resize(V1, 0, 0) EXCEPT !.pending_centering = TRUE]
       IN Call(Call(V2, "set_maximized"), "set_tiled")

\* mutation: a fullscreen view is tiled like any other
view_tile_fullscreen_too(V, direction, output) ==
  LET V1 == view_save(V)
      V2 == [V1 EXCEPT !.state = "TILED", !.tile_direction = direction]
      V3 == Call(Call(V2, "set_maximized"), "set_tiled")
  IN view_arrange_tiled(V3, output)

view_tile(V, direction, output) ==
  IF view_is_fullscreen(V) THEN V
  ELSE LET V1 == view_save(V)
           V2 == [V1 EXCEPT !.state = "TILED", !.tile_direction = direction]
           V3 == Call(Call(V2, "set_maximized"), "set_tiled")
       IN view_arrange_tiled(V3, output)

----------------------------------------------------------------------------
(* Fullscreen.  W is [views, fullscreen_view]; the result is the same pair *)
(* after the call.                                                         *)

\* mutation: every view counts as focused
phoc_input_view_has_focus_any(v) == TRUE

phoc_input_view_has_focus(v) == focus = v

SetFullscreenEnter(W, v, V, was_fullscreen, output) ==
  LET out == IF output = NULL THEN view_get_output(V) ELSE output
      ob == wlr_output_layout_get_box(out)
      fv1 == IF was_fullscreen
             THEN [W.fullscreen_view EXCEPT ![V.fullscreen_output] = NULL]
             ELSE W.fullscreen_view
      V1 == view_save(V)
      V2 == phoc_view_move_resize(V1, ob.x, ob.y, ob.width, ob.height)
      V3 == Call([V2 EXCEPT !.fullscreen_output = out], "output_damage")
  IN IF out = NULL THEN W
     ELSE [views |-> [W.views EXCEPT ![v] = V3],
           fullscreen_view |-> [fv1 EXCEPT ![out] = v]]

SetFullscreenExit(W, v, V) ==
  LET phoc_output == V.fullscreen_output
      V1 == Call([V EXCEPT !.fullscreen_output = NULL], "output_damage")
      V2 == IF V1.state = "MAXIMIZED" THEN view_arrange_maximized(V1, phoc_output)
            ELSE IF V1.state = "TILED" THEN view_arrange_tiled(V1, phoc_output)
            ELSE IF ~wlr_box_empty(V1.saved)
            THEN phoc_view_move_resize(V1, V1.saved.x - V1.geom,
                                       V1.saved.y - V1.geom,
                                       V1.saved.width, V1.saved.height)
            ELSE [phoc_view_resize(V1, 0, 0) EXCEPT !.pending_centering = TRUE]
  IN [views |-> [W.views EXCEPT ![v] = view_auto_maximize(V2)],
      fullscreen_view |-> [W.fullscreen_view EXCEPT ![phoc_output] = NULL]]

phoc_view_set_fullscreen(W, v, fullscreen, output) ==
  LET V == W.views[v]
      was_fullscreen == view_is_fullscreen(V)
      denied == was_fullscreen # fullscreen /\ fullscreen
                /\ phoc_view_is_mapped(V) /\ ~phoc_input_view_has_focus(v)
      V1 == IF was_fullscreen # fullscreen THEN Call(V, "set_fullscreen") ELSE V
  IN IF denied THEN W
     ELSE IF fullscreen THEN SetFullscreenEnter(W, v, V1, was_fullscreen, output)
     ELSE IF was_fullscreen THEN SetFullscreenExit(W, v, V1)
     ELSE [W EXCEPT !.views[v] = V1]

World == [views |-> views, fullscreen_view |-> fullscreen_view]

----------------------------------------------------------------------------
(* Centering, size updates, commit.  co is the output under the cursor.    *)

Min(a, b) == IF a < b THEN a ELSE b

view_center(V, wlr_output, co) ==
  LET output == IF wlr_output # NULL THEN wlr_output ELSE co
      ua == usable_area(output)
      lo == wlr_output_layout_get_box(output)
      view_x2 == (ua.width - V.box.width) + 2 * (ua.x + lo.x - V.geom)
      view_y2 == (ua.height - V.box.height) + 2 * (ua.y + lo.y - V.geom)
      V1 == phoc_view_move(V, view_x2, view_y2)
  IN IF ~view_is_floating(V) THEN V
     ELSE IF output = NULL THEN V
     ELSE IF ~maximize THEN V1
     ELSE IF V1.box.width > ua.width \/ V1.box.height > ua.height
     THEN phoc_view_resize(V1, Min(V1.box.width, ua.width),
                           Min(V1.box.height, ua.height))
     ELSE V1

view_update_size(V, width, height, co) ==
  IF V.box.width = width /\ V.box.height = height THEN V
  ELSE LET V1 == phoc_view_damage_whole(V)
           V2 == [V1 EXCEPT !.box.width = width, !.box.height = height]
           V3 == IF V2.pending_centering \/ (view_is_floating(V2) /\ maximize)
                 THEN [view_center(V2, NULL, co) EXCEPT !.pending_centering = FALSE]
                 ELSE V2
       IN phoc_view_damage_whole(V3)

\* wlroots applies the commit's ack: configures up to the `serial`-th in
\* flight leave the list and serials are renumbered
AckConfigure(V, serial) ==
  [V EXCEPT !.confs = SubSeq(@, serial + 1, Len(@)),
            !.pending_serial = IF @ >= configure_serial + serial THEN @ - serial ELSE 0]

\* handle_surface_commit on view V, whose surface state is already current;
\* the commit carries window geometry `size` with inset `geom`
handle_surface_commit(V, size, geom, co) ==
  LET \* a pending move-resize is finished from the committed size
      Position(V1) ==
        LET p == V1.pending_move_resize
            pending_serial == V1.pending_serial
            x == IF p.update_x
                 THEN (IF view_is_floating(V1) THEN p.x + p.width - size.width
                       ELSE p.x)
                 ELSE V1.box.x
            y == IF p.update_y
                 THEN (IF view_is_floating(V1) THEN p.y + p.height - size.height
                       ELSE p.y)
                 ELSE V1.box.y
        IN IF pending_serial > 0 /\ pending_serial >= configure_serial
           THEN [view_update_position(V1, x, y) EXCEPT
                   !.pending_serial = IF pending_serial = configure_serial
                                      THEN 0 ELSE @]
           ELSE V1
      \* a changed geometry inset moves the view
      Geometry(V2) ==
        IF V2.saved_geometry # geom
        THEN view_update_position(V2, V2.box.x + (V2.saved_geometry - geom),
                                  V2.box.y + (V2.saved_geometry - geom))
        ELSE V2
  IN IF ~phoc_view_is_mapped(V) THEN [V EXCEPT !.geom = geom]
     ELSE [The({Geometry(V2) :
                  V2 \in {Position(V1) :
                            V1 \in {view_update_size(V, size.width, size.height,
                                                     co)}}})
           EXCEPT !.geom = geom, !.saved_geometry = geom]

\* the calls and assignments handle_surface_commit makes on V, in program
\* order: buffer damage, size, the position of a pending move-resize and
\* the end of that move-resize, the correction for a changed geometry inset
handle_surface_commit_order(V, size, geom) ==
  LET pending_serial == V.pending_serial
  IN IF ~phoc_view_is_mapped(V) THEN << >>
     ELSE <<"phoc_view_apply_damage", "view_update_size">>
          \o (IF pending_serial > 0 /\ pending_serial >= configure_serial
              THEN <<"view_update_position">>
                   \o (IF pending_serial = configure_serial
                       THEN <<"pending_move_resize_configure_serial">>
                       ELSE << >>)
              ELSE << >>)
          \o (IF V.saved_geometry # geom THEN <<"geometry_correction">>
              ELSE << >>)
          \o <<"saved_geometry">>

----------------------------------------------------------------------------
(* Activation, unmap, destroy *)

\* phoc_view_activate: in auto-maximize mode the activated state is not sent
phoc_view_activate(V) == IF ~maximize THEN Call(V, "set_activated") ELSE V

\* view_unmap on W = [views, fullscreen_view]
view_unmap(W, v) ==
  LET V == W.views[v]
      V1 == phoc_view_damage_whole(V)
      fv == IF view_is_fullscreen(V)
            THEN [W.fullscreen_view EXCEPT ![V.fullscreen_output] = NULL]
            ELSE W.fullscreen_view
      V2 == [V1 EXCEPT !.fullscreen_output = NULL,
                       !.life = "unmapped",
                       !.box.width = 0, !.box.height = 0]
  IN [views |-> [W.views EXCEPT ![v] = V2], fullscreen_view |-> fv]

\* phoc_view_finalize
phoc_view_finalize(W, v) ==
  LET W1 == IF W.views[v].life = "mapped" THEN view_unmap(W, v) ELSE W
      V == W1.views[v]
      fv == IF view_is_fullscreen(V)
            THEN [W1.fullscreen_view EXCEPT ![V.fullscreen_output] = NULL]
            ELSE W1.fullscreen_view
  IN [views |-> [W1.views EXCEPT ![v] = NoView], fullscreen_view |-> fv]

----------------------------------------------------------------------------
(* History of the last maximize/restore round trip of each view *)

NoTrack == [phase |-> "none", box |-> Box(0, 0, 0, 0), geom |-> 0]

TrackMaximize(v, V) ==
  IF view_is_floating(V) /\ ~wlr_box_empty(V.box) /\ ~maximize
  THEN [track EXCEPT ![v] = [phase |-> "maximized", box |-> V.box, geom |-> V.geom]]
  ELSE [track EXCEPT ![v] = NoTrack]

TrackRestore(v, V) ==
  IF track[v].phase = "maximized" /\ view_is_maximized(V)
  THEN [track EXCEPT ![v].phase = "restored"]
  ELSE IF track[v].phase = "restored" /\ view_is_floating(V) THEN track
  ELSE [track EXCEPT ![v] = NoTrack]

----------------------------------------------------------------------------
(* Cursor: grab mode, grab anchor and the suggested state change.  C is    *)
(* the PhocCursor; CW is [views, fullscreen_view, cursor].                 *)

\* PHOC_EDGE_SNAP_THRESHOLD in pixels of the scaled-down layout
PHOC_EDGE_SNAP_THRESHOLD == 2

NoViewState ==
  [view |-> NULL, output |-> NULL, state |-> "FLOATING", tile_dir |-> "LEFT",
   rect |-> FALSE, anim |-> FALSE]

phoc_cursor_init ==
  [mode |-> "PASSTHROUGH", x |-> 0, y |-> 0, offs_x |-> 0, offs_y |-> 0,
   view_x |-> 0, view_y |-> 0, view_width |-> 0, view_height |-> 0,
   resize_edges |-> {}, pointer_view |-> NULL, view_state |-> NoViewState]

phoc_cursor_view_state_set_view(C, view) == [C EXCEPT !.view_state.view = view]

phoc_cursor_view_state_set_output(C, output) ==
  [C EXCEPT !.view_state.output = output]

\* mutation: a pending suggestion is overwritten
phoc_cursor_suggest_view_state_change_again(C, V, view, output, state, dir) ==
  LET C1 == [C EXCEPT !.view_state.state = state,
                      !.view_state.tile_dir = dir]
      C2 == phoc_cursor_view_state_set_output(
              phoc_cursor_view_state_set_view(C1, view), output)
      C3 == [C2 EXCEPT !.view_state.rect = TRUE]
  IN IF ~HasTargetBox(V, output) THEN C3
     ELSE [C3 EXCEPT !.view_state.anim = TRUE]

phoc_cursor_suggest_view_state_change(C, V, view, output, state, dir) ==
  IF C.view_state.view # NULL THEN C
  ELSE LET C1 == [C EXCEPT !.view_state.state = state,
                           !.view_state.tile_dir = dir]
           C2 == phoc_cursor_view_state_set_output(
                   phoc_cursor_view_state_set_view(C1, view), output)
           C3 == [C2 EXCEPT !.view_state.rect = TRUE]
       IN IF ~HasTargetBox(V, output) THEN C3
          ELSE [C3 EXCEPT !.view_state.anim = TRUE]

phoc_cursor_clear_view_state_change(C) ==
  LET C1 == IF C.view_state.view # NULL
            THEN [C EXCEPT !.view_state.rect = FALSE, !.view_state.anim = FALSE]
            ELSE C
  IN phoc_cursor_view_state_set_output(
       phoc_cursor_view_state_set_view(C1, NULL), NULL)

\* called with view_state.view set
phoc_cursor_submit_pending_view_state_change(CW) ==
  LET vs == CW.cursor.view_state
      V == CW.views[vs.view]
      V1 == IF vs.state = "MAXIMIZED" THEN view_maximize(V, vs.output)
            ELSE IF vs.state = "TILED" THEN view_tile(V, vs.tile_dir, vs.output)
            ELSE V
  IN [CW EXCEPT !.views[vs.view] = V1,
                !.cursor = phoc_cursor_clear_view_state_change(@)]

\* phoc_desktop_surface_at: the mapped view under a layout position
phoc_desktop_surface_at(vws, x, y) ==
  LET hit == {v \in Views :
                /\ vws[v].life = "mapped"
                /\ x >= vws[v].box.x /\ x < vws[v].box.x + vws[v].box.width
                /\ y >= vws[v].box.y /\ y < vws[v].box.y + vws[v].box.height}
  IN IF hit = {} THEN NULL ELSE CHOOSE v \in hit : \A u \in hit : v <= u

phoc_passthrough_cursor(CW) ==
  [CW EXCEPT !.cursor.pointer_view =
               phoc_desktop_surface_at(CW.views, CW.cursor.x, CW.cursor.y)]

phoc_cursor_update_focus(CW) == phoc_passthrough_cursor(CW)

Max(a, b) == IF a > b THEN a ELSE b

\* the PHOC_CURSOR_MOVE case of phoc_cursor_update_position
UpdatePositionMove(CW, view) ==
  LET C == CW.cursor
      V == CW.views[view]
      dx == C.x - C.offs_x
      dy == C.y - C.offs_y
      output == wlr_output_layout_output_at(outputs, C.x, C.y)
      output_box == wlr_output_layout_get_box(output)
      output_is_landscape == output_box.width > output_box.height
      FS == phoc_view_set_fullscreen(
              [views |-> CW.views, fullscreen_view |-> CW.fullscreen_view],
              view, TRUE, output)
      Suggest(state, dir) ==
        [CW EXCEPT !.cursor = phoc_cursor_suggest_view_state_change(
                                C, V, view, output, state, dir)]
  IN IF view_is_fullscreen(V)
     THEN [CW EXCEPT !.views = FS.views, !.fullscreen_view = FS.fullscreen_view]
     ELSE IF C.y < output_box.y + PHOC_EDGE_SNAP_THRESHOLD
     THEN Suggest("MAXIMIZED", "NONE")
     ELSE IF output_is_landscape /\ C.x < output_box.x + PHOC_EDGE_SNAP_THRESHOLD
     THEN Suggest("TILED", "LEFT")
     ELSE IF /\ output_is_landscape
             /\ C.x > output_box.x + output_box.width - PHOC_EDGE_SNAP_THRESHOLD
     THEN Suggest("TILED", "RIGHT")
     ELSE [CW EXCEPT
             !.cursor = phoc_cursor_clear_view_state_change(C),
             !.views[view] = phoc_view_move(view_restore(V),
                                            2 * (C.view_x + dx - V.geom),
                                            2 * (C.view_y + dy - V.geom))]

\* the PHOC_CURSOR_RESIZE case of phoc_cursor_update_position
UpdatePositionResize(CW, view) ==
  LET C == CW.cursor
      V == CW.views[view]
      dx == C.x - C.offs_x
      dy == C.y - C.offs_y
      top == "TOP" \in C.resize_edges
      bottom == ~top /\ "BOTTOM" \in C.resize_edges
      left == "LEFT" \in C.resize_edges
      right == ~left /\ "RIGHT" \in C.resize_edges
      height == IF top THEN C.view_height - dy
                ELSE IF bottom THEN C.view_height + dy ELSE C.view_height
      width == IF left THEN C.view_width - dx
               ELSE IF right THEN C.view_width + dx ELSE C.view_width
      y0 == IF top THEN C.view_y + dy - V.geom ELSE V.box.y
      x0 == IF left THEN C.view_x + dx - V.geom ELSE V.box.x
      y == IF top /\ height < 1 THEN y0 + height ELSE y0
      x == IF left /\ width < 1 THEN x0 + width ELSE x0
  IN [CW EXCEPT !.views[view] =
        phoc_view_move_resize(V, x, y, Max(width, 1), Max(height, 1))]

phoc_cursor_update_position(CW) ==
  IF CW.cursor.mode = "PASSTHROUGH" THEN phoc_passthrough_cursor(CW)
  ELSE IF focus = NULL THEN CW
  ELSE IF CW.cursor.mode = "MOVE" THEN UpdatePositionMove(CW, focus)
  ELSE UpdatePositionResize(CW, focus)

----------------------------------------------------------------------------
(* Seat and touch-point registry *)

TouchIds == {0, 1}

\* input devices report absolute positions as fractions n / AbsDen of the layout
AbsDen == 30
AbsXs == {0, 9, 15, 21}
AbsYs == {0, 10, 30}
HoverYs == {0, 25, 30}

\* touches near and away from the edges of both outputs
RevealXs == {0, 3, 9, 15, 27}
RevealYs == {0, 5, 15, 25}


NoTouchPoint == [tracked |-> FALSE, lx |-> 0, ly |-> 0]

NoSeatTouch == [touch_id |-> -1, touch_x |-> 0, touch_y |-> 0, points |-> {}]

\* wlr_output_layout_get_box of the whole layout
LayoutBox(outs) ==
  IF outs = {1} THEN wlr_output_layout_get_box(1)
  ELSE IF outs = {2} THEN wlr_output_layout_get_box(2)
  ELSE Box(0, 0, 10, 6)

wlr_cursor_absolute_to_layout_coords(ex, ey) ==
  LET lb == LayoutBox(outputs)
  IN [x |-> (ex * lb.width) \div AbsDen + lb.x,
      y |-> (ey * lb.height) \div AbsDen + lb.y]

ClampTo(p, lo, len) == IF p < lo THEN lo ELSE IF p >= lo + len THEN lo + len - 1 ELSE p

\* wlr_cursor_warp_closest: the position, or the point of the layout closest to it
wlr_cursor_warp_closest(C, lx, ly) ==
  LET near(o) == LET b == wlr_output_layout_get_box(o)
                 IN [x |-> ClampTo(lx, b.x, b.width), y |-> ClampTo(ly, b.y, b.height)]
      d(o) == (near(o).x - lx) * (near(o).x - lx) + (near(o).y - ly) * (near(o).y - ly)
      best == CHOOSE o \in outputs :
                \A p \in outputs : d(o) < d(p) \/ (d(o) = d(p) /\ o <= p)
  IN [C EXCEPT !.x = near(best).x, !.y = near(best).y]

phoc_cursor_get_touch_point(tp, id) == tp[id].tracked

phoc_cursor_add_touch_point(tp, id, lx, ly) ==
  [tp EXCEPT ![id] = [tracked |-> TRUE, lx |-> lx, ly |-> ly]]

\* mutation: an unknown id is added
phoc_cursor_update_or_add_touch_point(tp, id, lx, ly) ==
  [ok |-> TRUE, points |-> phoc_cursor_add_touch_point(tp, id, lx, ly)]

\* [ok, points]: ok is FALSE when NULL is returned
phoc_cursor_update_touch_point(tp, id, lx, ly) ==
  IF ~tp[id].tracked THEN [ok |-> FALSE, points |-> tp]
  ELSE [ok |-> TRUE, points |-> [tp EXCEPT ![id].lx = lx, ![id].ly = ly]]

phoc_cursor_remove_touch_point(tp, id) == [tp EXCEPT ![id] = NoTouchPoint]

\* phoc_seat_set_focus_view
SeatSetFocus(CW, v) ==
  IF v = focus THEN CW
  ELSE [CW EXCEPT !.views = [u \in Views |->
                     IF u = v \/ u = focus THEN phoc_view_activate(@[u]) ELSE @[u]]]

\* phoc_seat_begin_move: the grab anchor is the cursor position and the
\* view's position at grab start
phoc_seat_begin_move(CW, view) ==
  LET V == CW.views[view]
  IN [CW EXCEPT !.cursor.mode = "MOVE",
                !.cursor.offs_x = CW.cursor.x, !.cursor.offs_y = CW.cursor.y,
                !.cursor.view_x = V.box.x + V.geom,
                !.cursor.view_y = V.box.y + V.geom]

\* phoc_seat_begin_resize: additionally the edge mask and the view's size
phoc_seat_begin_resize(CW, view, edges) ==
  LET V == CW.views[view]
  IN [CW EXCEPT !.cursor.mode = "RESIZE",
                !.cursor.offs_x = CW.cursor.x, !.cursor.offs_y = CW.cursor.y,
                !.cursor.view_x = V.box.x + V.geom,
                !.cursor.view_y = V.box.y + V.geom,
                !.cursor.view_width = V.box.width,
                !.cursor.view_height = V.box.height,
                !.cursor.resize_edges = edges]

\* mutation: the grab survives the view
seat_view_destroy_keeps_grab(C, view) ==
  [C EXCEPT !.pointer_view = IF @ = view THEN NULL ELSE @]

\* seat_view_destroy: a grab on the seat's focus view ends with the view
seat_view_destroy(C, view) ==
  [C EXCEPT !.mode = IF view = focus THEN "PASSTHROUGH" ELSE @,
            !.pointer_view = IF @ = view THEN NULL ELSE @]

\* the weak pointer registered by phoc_cursor_view_state_set_view
WeakView(C, view) ==
  [C EXCEPT !.view_state.view = IF @ = view THEN NULL ELSE @]

\* the weak pointer registered by phoc_cursor_view_state_set_output
WeakOutput(C, output) ==
  [C EXCEPT !.view_state.output = IF @ = output THEN NULL ELSE @]

----------------------------------------------------------------------------
(* View handlers *)

Size(w, h) == [width |-> w, height |-> h]

\* the touch event a handler was called with: [id, x, y], id -1 for none
NoTouchEvent == [id |-> -1, x |-> 0, y |-> 0]

\* what the last handler did: the view it acted on, the handler, the calls it
\* made on the view's toplevel and its diagnostics
Effect(v, op, calls) ==
  [view |-> v, op |-> op, calls |-> calls, touch |-> NoTouchEvent]

\* window geometry sizes and insets a client commits of its own accord
ClientSizes == {Size(2, 2)}
Geoms == {0, 1}

OptOutputs == outputs \cup {NULL}

NonView == <<cursor, touch_points, seat_touch, children, tree, probe, pointer, layers>>

\* events are followed up to a bounded number of steps
Budget == steps < MaxSteps

Tick == Budget /\ steps' = steps + 1

InWindow(V) ==
  /\ V.box.x \in -1..MaxCoord /\ V.box.y \in -1..MaxCoord
  /\ V.saved.x \in -1..MaxCoord /\ V.saved.y \in -1..MaxCoord

(* View children: the subsurface tree of view 1 *)

NoChild == [alive |-> FALSE, mapped |-> FALSE, parent |-> NULL]

\* mutation: only the child's own flag counts
phoc_view_child_is_mapped_self(ch, child) == ch[child].mapped

RECURSIVE phoc_view_child_is_mapped(_, _)
phoc_view_child_is_mapped(ch, child) ==
  IF child = NULL THEN TRUE
  ELSE IF ~ch[child].mapped THEN FALSE
  ELSE phoc_view_child_is_mapped(ch, ch[child].parent)

\* phoc_view_child_damage_whole: the calls it makes
ChildDamage(ch, child) ==
  IF phoc_view_child_is_mapped(ch, child) /\ phoc_view_is_mapped(views[1])
  THEN {"damage"} ELSE {}

DoneChild(ch, op, calls) ==
  /\ Tick
  /\ children' = ch
  /\ effects' = Effect(1, op, calls)
  /\ UNCHANGED <<views, fullscreen_view, outputs, focus, maximize, track, cursor,
                 touch_points, seat_touch, tree, probe, pointer, layers>>

\* phoc_view_subsurface_create (parent = NULL) and
\* phoc_view_child_subsurface_create: a subsurface appears, mapped or not
subsurface_create(child, parent, mapped) ==
  /\ Budget
  /\ views[1].life # "none"
  /\ ~children[child].alive
  /\ parent # NULL => children[parent].alive
  /\ LET ch == [children EXCEPT ![child] = [alive |-> TRUE, mapped |-> mapped,
                                            parent |-> parent]]
     IN DoneChild(ch, "child_new",
                  IF parent # NULL THEN ChildDamage(ch, child) ELSE {})

\* subsurface_handle_map
subsurface_handle_map(child) ==
  /\ Budget
  /\ children[child].alive /\ ~children[child].mapped
  /\ LET ch == [children EXCEPT ![child].mapped = TRUE]
     IN DoneChild(ch, "child_map", ChildDamage(ch, child))

\* subsurface_handle_unmap
subsurface_handle_unmap(child) ==
  /\ Budget
  /\ children[child].alive /\ children[child].mapped
  /\ DoneChild([children EXCEPT ![child].mapped = FALSE], "child_unmap",
               ChildDamage(children, child))

\* mutation: the children of the child are destroyed with it
phoc_view_child_destroy_with_children(child) ==
  /\ Budget
  /\ children[child].alive
  /\ DoneChild([c \in ChildIds |->
                  IF c = child \/ (children[c].alive /\ children[c].parent = child)
                  THEN NoChild ELSE children[c]],
               "child_destroy", ChildDamage(children, child))

\* phoc_view_child_destroy
phoc_view_child_destroy(child) ==
  /\ Budget
  /\ children[child].alive
  /\ DoneChild([c \in ChildIds |->
                  IF c = child THEN NoChild
                  ELSE IF children[c].alive /\ children[c].parent = child
                  THEN [children[c] EXCEPT !.parent = NULL, !.mapped = FALSE]
                  ELSE children[c]],
               "child_destroy", ChildDamage(children, child))

\* the handler acting on view v returns with world W
Done(world, v, op) ==
  \E W \in {world} :
    \E F \in {Finish(W.views[v])} :
      /\ Tick
      /\ Len(F.confs) <= MaxSerial
      /\ InWindow(F)
      /\ views' = [W.views EXCEPT ![v] = F]
      /\ fullscreen_view' = W.fullscreen_view
      /\ effects' = Effect(v, op, W.views[v].calls)

WithView(v, V) == [World EXCEPT !.views[v] = V]

\* handle_xdg_shell_surface: a client creates a toplevel
handle_xdg_shell_surface(v, hasParent, maximized, fullscreen, output) ==
  /\ Budget
  /\ views[v].life = "none"
  /\ LET V0 == phoc_view_init(hasParent)
         V1 == IF maximized THEN view_maximize(V0, NULL) ELSE V0
         W1 == phoc_view_set_fullscreen(WithView(v, V1), v, fullscreen, output)
         W2 == [W1 EXCEPT !.views[v] = view_auto_maximize(@)]
     IN Done(W2, v, "new")
  /\ track' = [track EXCEPT ![v] = NoTrack]
  /\ UNCHANGED <<outputs, focus, maximize, NonView>>

\* handle_map, phoc_view_map, phoc_view_setup: the client's first buffer commit
\* acked the configures sent so far; the seat focuses the new view
handle_map(v, size, geom, co) ==
  /\ Budget
  /\ views[v].life = "unmapped"
  /\ LET V0 == AckConfigure(views[v], Len(views[v].confs))
         V1 == [V0 EXCEPT !.box.width = size.width, !.box.height = size.height,
                          !.geom = geom, !.saved_geometry = geom,
                          !.life = "mapped"]
         V2 == phoc_view_activate(phoc_view_damage_whole(V1))
         V3 == view_center(V2, NULL, co)
         F == Finish(V3)
         old == IF focus # NULL /\ focus # v
                THEN Finish(phoc_view_activate(views[focus])) ELSE NoView
     IN /\ Tick
        /\ Len(F.confs) <= MaxSerial
        /\ Len(old.confs) <= MaxSerial
        /\ views' = [u \in Views |-> IF u = v THEN F
                                     ELSE IF u = focus THEN old ELSE views[u]]
        /\ effects' = Effect(v, "map", V3.calls)
  /\ focus' = v
  /\ track' = [track EXCEPT ![v] = NoTrack]
  /\ UNCHANGED <<fullscreen_view, outputs, maximize, NonView>>

\* handle_unmap
handle_unmap(v) ==
  /\ Budget
  /\ views[v].life = "mapped"
  /\ Done(view_unmap(World, v), v, "unmap")
  /\ focus' = IF focus = v THEN NULL ELSE focus
  /\ track' = [track EXCEPT ![v] = NoTrack]
  /\ UNCHANGED <<outputs, maximize, NonView>>

\* handle_destroy
handle_destroy(v) ==
  /\ Budget
  /\ views[v].life # "none"
  /\ Done(phoc_view_finalize(World, v), v, "destroy")
  /\ focus' = IF focus = v THEN NULL ELSE focus
  /\ cursor' = WeakView(seat_view_destroy(cursor, v), v)
  /\ track' = [track EXCEPT ![v] = NoTrack]
  /\ UNCHANGED <<outputs, maximize, touch_points, seat_touch, children, tree, probe, pointer, layers>>

\* handle_request_maximize
handle_request_maximize(v, maximized) ==
  /\ Budget
  /\ views[v].life # "none"
  /\ IF maximized
     THEN /\ Done(WithView(v, view_maximize(views[v], NULL)), v, "maximize")
          /\ track' = TrackMaximize(v, views[v])
     ELSE /\ Done(WithView(v, view_restore(views[v])), v, "restore")
          /\ track' = TrackRestore(v, views[v])
  /\ UNCHANGED <<outputs, focus, maximize, NonView>>

\* handle_request_fullscreen
handle_request_fullscreen(v, fullscreen, output) ==
  /\ Budget
  /\ views[v].life # "none"
  /\ Done(phoc_view_set_fullscreen(World, v, fullscreen, output), v,
          IF fullscreen THEN "fullscreen" ELSE "unfullscreen")
  /\ track' = [track EXCEPT ![v] = NoTrack]
  /\ UNCHANGED <<outputs, focus, maximize, NonView>>

\* a surface commit of the client: it acks in-flight configure `serial`
\* (0: none) and commits window geometry `size` with inset `geom`
CommitStep(v, serial, size, geom, co) ==
  /\ Budget
  /\ views[v].life = "mapped"
  /\ serial <= Len(views[v].confs)
  /\ LET V == views[v]
         asked == IF serial > 0 THEN V.confs[serial]
                  ELSE Size(V.box.width, V.box.height)
         \* the commit carries the size the client was last asked for
         obedient == /\ asked.width > 0 /\ asked.height > 0 /\ size = asked
                     /\ serial > 0 \/ V.confs = << >>
     IN /\ size = asked \/ size \in ClientSizes
        /\ Done(WithView(v, handle_surface_commit(AckConfigure(V, serial),
                                                   size, geom, co)),
                v, "commit")
        /\ track' = IF obedient THEN track ELSE [track EXCEPT ![v] = NoTrack]

SurfaceCommit(v, serial, size, geom, co) ==
  /\ CommitStep(v, serial, size, geom, co)
  /\ UNCHANGED <<outputs, focus, maximize, NonView>>

\* the same commit, with the order of the handler's steps put on record
SurfaceCommitOrder(v, serial, size, geom, co) ==
  /\ CommitStep(v, serial, size, geom, co)
  /\ probe' = [op |-> "commit",
               order |-> handle_surface_commit_order(
                           AckConfigure(views[v], serial), size, geom),
               serial |-> serial,
               before |-> views[v]]
  /\ UNCHANGED <<outputs, focus, maximize, cursor, touch_points, seat_touch,
                 children, tree, pointer, layers>>

\* phoc_seat_set_focus_view: the seat moves keyboard focus to view v (or to
\* no view); the old and new focus views are (de)activated
SetFocus(v) ==
  /\ Budget
  /\ v # focus
  /\ v # NULL => views[v].life = "mapped"
  /\ LET new == IF v # NULL THEN Finish(phoc_view_activate(views[v])) ELSE NoView
         old == IF focus # NULL THEN Finish(phoc_view_activate(views[focus])) ELSE NoView
     IN /\ Tick
        /\ Len(new.confs) <= MaxSerial
        /\ Len(old.confs) <= MaxSerial
        /\ views' = [u \in Views |-> IF u = v THEN new
                                     ELSE IF u = focus THEN old ELSE views[u]]
        /\ effects' = Effect(v, "focus", IF maximize THEN {} ELSE {"set_activated"})
  /\ focus' = v
  /\ UNCHANGED <<fullscreen_view, outputs, maximize, track, NonView>>

\* view_tile called for view v (keybinding or edge snap)
TileView(v, direction, output) ==
  /\ Budget
  /\ views[v].life = "mapped"
  /\ Done(WithView(v, view_tile(views[v], direction, output)), v, "tile")
  /\ track' = [track EXCEPT ![v] = NoTrack]
  /\ UNCHANGED <<outputs, focus, maximize, NonView>>

\* view_maximize called with an explicit output (keybinding or edge snap)
MaximizeView(v, output) ==
  /\ Budget
  /\ views[v].life = "mapped"
  /\ Done(WithView(v, view_maximize(views[v], output)), v, "maximize")
  /\ track' = TrackMaximize(v, views[v])
  /\ UNCHANGED <<outputs, focus, maximize, NonView>>

\* wlr_output_layout_adjacent_output for the two-output layout
wlr_output_layout_adjacent_output(direction, output) ==
  IF direction = "RIGHT" /\ output = 1 /\ 2 \in outputs THEN 2
  ELSE IF direction = "LEFT" /\ output = 2 /\ 1 \in outputs THEN 1
  ELSE NULL

\* view_move_to_next_output
view_move_to_next_output(v, direction) ==
  /\ Budget
  /\ views[v].life = "mapped"
  /\ LET V == views[v]
         output == view_get_output(V)
         new_output == IF output = NULL THEN NULL
                       ELSE wlr_output_layout_adjacent_output(direction, output)
         ua == UsableInLayout(new_output)
         V1 == [V EXCEPT !.saved.x = ua.x + ua.width \div 2 - V.saved.width \div 2,
                         !.saved.y = ua.y + ua.height \div 2 - V.saved.height \div 2]
         W == IF view_is_fullscreen(V1)
              THEN phoc_view_set_fullscreen(WithView(v, V1), v, TRUE, new_output)
              ELSE IF view_is_maximized(V1)
              THEN WithView(v, view_arrange_maximized(V1, new_output))
              ELSE IF view_is_tiled(V1)
              THEN WithView(v, view_arrange_tiled(V1, new_output))
              ELSE WithView(v, view_center(V1, new_output, NULL))
     IN /\ new_output # NULL
        /\ Done(W, v, "move_to_next_output")
  /\ track' = [track EXCEPT ![v] = NoTrack]
  /\ UNCHANGED <<outputs, focus, maximize, NonView>>

----------------------------------------------------------------------------
(* Server-side decoration *)

PHOC_DECO_BORDER_WIDTH == 4
PHOC_DECO_TITLEBAR_HEIGHT == 12

\* phoc_view_set_decoration: the decorated flag and the metrics of a view
phoc_view_set_decoration(decorated, titlebar_height, border_width) ==
  [decorated |-> decorated,
   titlebar_height |-> IF decorated THEN titlebar_height ELSE 0,
   border_width |-> IF decorated THEN border_width ELSE 0]

\* mutation: the titlebar is not told from the borders
view_get_deco_part_no_titlebar(priv, sw, sh, sx, sy) ==
  IF ~priv.decorated THEN {}
  ELSE (IF sx < 0 /\ sx > -priv.border_width THEN {"LEFT_BORDER"}
        ELSE IF sx > sw /\ sx < sw + priv.border_width THEN {"RIGHT_BORDER"}
        ELSE {})
       \cup (IF sy > sh /\ sy <= sh + priv.border_width THEN {"BOTTOM_BORDER"}
             ELSE IF sy < 0 THEN {"TOP_BORDER"} ELSE {})

\* mutation: a point outside two adjacent edges of the surface has no part
view_get_deco_part_no_corners(priv, sw, sh, sx, sy) ==
  IF (sx < 0 \/ sx > sw) /\ (sy < 0 \/ sy > sh) THEN {}
  ELSE view_get_deco_part_no_titlebar(priv, sw, sh, sx, sy)

\* view_get_deco_part, phoc_view_deco_get_part: the set of parts in the
\* returned bit mask (PHOC_VIEW_DECO_PART_NONE is the empty set) for the
\* surface-local point (sx, sy) of a sw x sh surface
view_get_deco_part(priv, sw, sh, sx, sy) ==
  LET bw == priv.border_width
      titlebar_h == priv.titlebar_height
      horiz == IF sy >= -(titlebar_h + bw) /\ sy <= sh + bw
               THEN IF sx < 0 /\ sx > -bw THEN {"LEFT_BORDER"}
                    ELSE IF sx > sw /\ sx < sw + bw THEN {"RIGHT_BORDER"}
                    ELSE {}
               ELSE {}
      vert == IF sx >= -bw /\ sx <= sw + bw
              THEN IF sy > sh /\ sy <= sh + bw THEN {"BOTTOM_BORDER"}
                   ELSE IF sy >= -(titlebar_h + bw) /\ sy < 0 THEN {"TOP_BORDER"}
                   ELSE {}
              ELSE {}
  IN IF ~priv.decorated THEN {}
     ELSE IF sx > 0 /\ sx < sw /\ sy < 0 /\ sy > -priv.titlebar_height
     THEN {"TITLEBAR"}
     ELSE horiz \cup vert

----------------------------------------------------------------------------
(* The transient-for tree of the views *)

\* no query was made
NoProbe == [op |-> "none"]

\* a view that does not exist
NoTreeView == [alive |-> FALSE, parent |-> NULL, stack |-> << >>]

\* wl_list_remove of view v's parent_link
Unlinked(stack, v) == SelectSeq(stack, LAMBDA x : x # v)

\* the walk of view_set_parent from node up to the root: does it meet view
RECURSIVE MeetsView(_, _, _)
MeetsView(t, node, view) ==
  IF node = NULL THEN FALSE
  ELSE IF node = view THEN TRUE
  ELSE MeetsView(t, t[node].parent, view)

\* mutation: the new parent is not checked against the view's descendants
view_set_parent_unchecked(t, view, parent) ==
  LET t1 == IF t[view].parent # NULL
            THEN [t EXCEPT ![t[view].parent].stack = Unlinked(@, view)] ELSE t
      t2 == [t1 EXCEPT ![view].parent = parent]
  IN [ok |-> TRUE,
      tree |-> IF parent # NULL THEN [t2 EXCEPT ![parent].stack = <<view>> \o @]
               ELSE t2]

\* view_set_parent; ok is FALSE when g_return_if_fail returns
view_set_parent(t, view, parent) ==
  IF MeetsView(t, parent, view) THEN [ok |-> FALSE, tree |-> t]
  ELSE LET t1 == IF t[view].parent # NULL
                 THEN [t EXCEPT ![t[view].parent].stack = Unlinked(@, view)] ELSE t
           t2 == [t1 EXCEPT ![view].parent = parent]
       IN [ok |-> TRUE,
           tree |-> IF parent # NULL
                    THEN [t2 EXCEPT ![parent].stack = <<view>> \o @]
                    ELSE t2]

\* wl_list_insert at the head, once per element in list order
RECURSIVE InsertEach(_, _)
InsertEach(list, stack) ==
  IF list = << >> THEN stack
  ELSE InsertEach(Tail(list), <<Head(list)>> \o stack)

\* phoc_view_finalize: the view leaves its parent's stack and its children
\* move to its parent
TreeFinalize(t, self) ==
  LET parent == t[self].parent
      kids == t[self].stack
      IsKid(v) == \E i \in 1..Len(kids) : kids[i] = v
  IN [v \in TreeViews |->
        IF v = self THEN NoTreeView
        ELSE IF IsKid(v) THEN [t[v] EXCEPT !.parent = parent]
        ELSE IF v = parent
        THEN [t[v] EXCEPT !.stack = InsertEach(kids, Unlinked(@, self))]
        ELSE t[v]]

DoneTree(t, op, calls, args) ==
  /\ Tick
  /\ tree' = t
  /\ effects' = Effect(NULL, op, calls)
  /\ probe' = args
  /\ UNCHANGED <<views, fullscreen_view, outputs, focus, maximize, track, cursor,
                 touch_points, seat_touch, children, pointer, layers>>

\* handle_xdg_shell_surface, phoc_view_init: a new view has no parent and an
\* empty stack
TreeCreate(v) ==
  /\ Budget
  /\ ~tree[v].alive
  /\ DoneTree([tree EXCEPT ![v] = [NoTreeView EXCEPT !.alive = TRUE]],
              "tree_new", {}, NoProbe)

\* handle_set_parent (xdg toplevel)
handle_set_parent(v, parent) ==
  /\ Budget
  /\ tree[v].alive
  /\ parent # NULL => tree[parent].alive
  /\ \E r \in {view_set_parent(tree, v, parent)} :
       DoneTree(r.tree, "set_parent",
                IF r.ok THEN {} ELSE {"g_return_if_fail"},
                [op |-> "set_parent", view |-> v, parent |-> parent])

\* handle_destroy of a view of the tree
TreeDestroy(v) ==
  /\ Budget
  /\ tree[v].alive
  /\ DoneTree(TreeFinalize(tree, v), "tree_destroy", {}, NoProbe)

----------------------------------------------------------------------------
(* Output follow: enter and leave notifications *)

\* a scale factor num/den; view_get_box truncates the scaled size
Scaled(n, scale) == (n * scale.num) \div scale.den

\* view_get_box of a view with box `box` and scale `scale`
view_get_box(box, scale) ==
  Box(box.x, box.y, Scaled(box.width, scale), Scaled(box.height, scale))

\* wlr_output_layout_intersects
wlr_output_layout_intersects(o, b) ==
  LET ob == wlr_output_layout_get_box(o)
      x1 == Max(ob.x, b.x)
      y1 == Max(ob.y, b.y)
      x2 == Min(ob.x + ob.width, b.x + b.width)
      y2 == Min(ob.y + ob.height, b.y + b.height)
  IN ~wlr_box_empty(b) /\ x2 - x1 > 0 /\ y2 - y1 > 0

\* mutation: the box before the change is not looked at
view_update_output_forgetful(mapped, handle, vbox, has_before, before, outs) ==
  IF ~mapped THEN {}
  ELSE UNION {IF wlr_output_layout_intersects(o, vbox)
              THEN {<<"surface_enter", o>>} ELSE {} : o \in outs}

\* view_update_output: the notifications sent; vbox is view_get_box of the
\* view, before is the box before the change unless has_before is FALSE (a
\* NULL pointer), handle tells whether the view has a foreign-toplevel handle
view_update_output(mapped, handle, vbox, has_before, before, outs) ==
  IF ~mapped THEN {}
  ELSE UNION {
         LET intersected == has_before /\ wlr_output_layout_intersects(o, before)
             intersects == wlr_output_layout_intersects(o, vbox)
         IN (IF intersected /\ ~intersects
             THEN {<<"surface_leave", o>>}
                  \cup (IF handle THEN {<<"toplevel_leave", o>>} ELSE {})
             ELSE {})
            \cup
            (IF ~intersected /\ intersects
             THEN {<<"surface_enter", o>>}
                  \cup (IF handle THEN {<<"toplevel_enter", o>>} ELSE {})
             ELSE {}) : o \in outs}

----------------------------------------------------------------------------
(* Scale to fit.  A scale is the fraction num/den in lowest terms; the     *)
(* float quotients of the code are compared by cross-multiplication and a  *)
(* division by a zero box size is the infinite quotient.                   *)

RECURSIVE GCD(_, _)
GCD(a, b) == IF b = 0 THEN a ELSE GCD(b, a % b)

Fraction(n, d) == [num |-> n \div GCD(n, d), den |-> d \div GCD(n, d)]

Half == Fraction(1, 2)
Unit == Fraction(1, 1)

\* view_update_output on a view F = [mapped, box, state, fullscreen_output,
\* geom, pending_centering, log] whose surface has no foreign-toplevel handle
\* and scale 1: the notifications it sends are appended, per output, to log
LogOutput(F, has_before, before) ==
  LET calls == view_update_output(F.mapped, FALSE, view_get_box(F.box, Unit),
                                  has_before, before, outputs)
  IN [F EXCEPT !.log =
        [o \in Outputs |->
           @[o] \o (IF <<"surface_leave", o>> \in calls THEN <<"leave">> ELSE << >>)
                \o (IF <<"surface_enter", o>> \in calls THEN <<"enter">> ELSE << >>)]]

\* view_update_position, with the notifications it sends
LogPosition(F, x, y) ==
  IF F.box.x = x /\ F.box.y = y THEN F
  ELSE LogOutput([F EXCEPT !.box.x = x, !.box.y = y], TRUE,
                 view_get_box(F.box, Unit))

\* phoc_view_move of an xdg toplevel (its move() is view_update_position)
LogMove(F, x2, y2) ==
  IF 2 * F.box.x = x2 /\ 2 * F.box.y = y2 THEN F
  ELSE LogPosition([F EXCEPT !.pending_centering = FALSE],
                   TruncDiv2(x2), TruncDiv2(y2))

\* view_center(view, NULL) with the cursor on output co; the size it may ask
\* the client for does not change the box
LogCenter(F, co) ==
  LET ua == usable_area(co)
      lo == wlr_output_layout_get_box(co)
  IN IF ~view_is_floating(F) THEN F
     ELSE LogMove(F, (ua.width - F.box.width) + 2 * (ua.x + lo.x - F.geom),
                     (ua.height - F.box.height) + 2 * (ua.y + lo.y - F.geom))

\* view_update_size, with the notifications it sends; scale-to-fit is off, so
\* view_update_scale leaves the scale at 1
LogSize(F, width, height, co) ==
  IF F.box.width = width /\ F.box.height = height THEN F
  ELSE LET before == view_get_box(F.box, Unit)
           F2 == [F EXCEPT !.box.width = width, !.box.height = height]
           F3 == IF F2.pending_centering \/ (view_is_floating(F2) /\ maximize)
                 THEN [LogCenter(F2, co) EXCEPT !.pending_centering = FALSE]
                 ELSE F2
       IN LogOutput(F3, TRUE, before)

\* phoc_view_setup of a view that phoc_view_map has just mapped
LogSetup(F, co) ==
  LET F1 == LogCenter([F EXCEPT !.mapped = TRUE], co)
  IN LogOutput(F1, FALSE, F1.box)

\* mutation: a fullscreen view is scaled like any other
view_update_scale_fullscreen_too(S, output) ==
  IF ~S.want_scaling \/ output = NULL THEN [S EXCEPT !.ran = FALSE, !.calls = {}]
  ELSE LET ua == usable_area(output)
           fit == IF ua.height * S.width < ua.width * S.height
                  THEN Fraction(ua.height, S.height)
                  ELSE Fraction(ua.width, S.width)
           scale == IF ~(S.scale_to_fit \/ S.global) THEN Unit
                    ELSE IF fit.num > fit.den THEN Unit
                    ELSE IF 2 * fit.num < fit.den THEN Half
                    ELSE fit
       IN [S EXCEPT !.scale = scale, !.ran = TRUE, !.output = output,
                    !.calls = IF scale = S.scale THEN {} ELSE {"center"}]

\* view_update_scale of a view S = [width, height, scale, fullscreen, state,
\* scale_to_fit, global (the desktop's setting), want_scaling] on `output`
\* (view_get_output); ran tells whether it got past its early returns
view_update_scale(S, output) ==
  IF ~S.want_scaling \/ output = NULL THEN [S EXCEPT !.ran = FALSE, !.calls = {}]
  ELSE LET ua == usable_area(output)
           \* scaley < scalex
           fit == IF ua.height * S.width < ua.width * S.height
                  THEN Fraction(ua.height, S.height)
                  ELSE Fraction(ua.width, S.width)
           low == IF 2 * fit.num < fit.den THEN Half ELSE fit
           scale == IF ~(S.scale_to_fit \/ S.global) THEN Unit
                    ELSE IF low.num > low.den \/ S.fullscreen THEN Unit
                    ELSE low
       IN [S EXCEPT !.scale = scale, !.ran = TRUE, !.output = output,
                    !.calls = IF scale = S.scale THEN {}
                              ELSE IF S.state = "MAXIMIZED" /\ ~S.fullscreen
                              THEN {"view_arrange_maximized"}
                              ELSE IF S.state = "TILED" /\ ~S.fullscreen
                              THEN {"view_arrange_tiled"}
                              ELSE {"view_center"}]

----------------------------------------------------------------------------
(* Cursor handlers *)

CurWorld == [views |-> views, fullscreen_view |-> fullscreen_view,
             cursor |-> cursor]

\* a cursor handler returns with world CW; v is the view it acted on, if any
DoneTouch(world, v, op, calls, ev) ==
  \E CW \in {world} :
    \E F \in {[u \in Views |-> Finish(CW.views[u])]} :
      /\ Tick
      /\ \A u \in Views : Len(F[u].confs) <= MaxSerial /\ InWindow(F[u])
      /\ views' = F
      /\ fullscreen_view' = CW.fullscreen_view
      /\ cursor' = CW.cursor
      /\ effects' = [Effect(v, op, calls \cup (IF v = NULL THEN {}
                                                 ELSE CW.views[v].calls))
                     EXCEPT !.touch = ev]

DoneCursor(CW, v, op, calls) == DoneTouch(CW, v, op, calls, NoTouchEvent)

\* mutation: the recognizers are served last come, first served
cursor_gestures_handle_event_reversed(P, type, lx, ly, mode, touch_id) ==
  [P EXCEPT !.delivered =
     @ \o [i \in 1..Len(P.gestures) |->
             [gesture |-> P.gestures[Len(P.gestures) + 1 - i], type |-> type,
              lx |-> lx, ly |-> ly, mode |-> mode, touch_id |-> touch_id]]]

\* cursor_gestures_handle_event: every recognizer of the cursor handles the
\* event at (lx, ly); it finds the cursor in `mode` and the seat's primary
\* touch at `touch_id`
cursor_gestures_handle_event(P, type, lx, ly, mode, touch_id) ==
  [P EXCEPT !.delivered =
     @ \o [i \in 1..Len(P.gestures) |->
             [gesture |-> P.gestures[i], type |-> type,
              lx |-> lx, ly |-> ly, mode |-> mode, touch_id |-> touch_id]]]

\* handle_gestures_for_event_at as the first thing a handler of the cursor
\* does with an event; type NONE: the handler hands no event on
Gestured(type, lx, ly) ==
  IF type = "NONE" THEN [pointer EXCEPT !.delivered = << >>]
  ELSE cursor_gestures_handle_event([pointer EXCEPT !.delivered = << >>],
                                    type, lx, ly, cursor.mode,
                                    seat_touch.touch_id)

\* handle_request_move (xdg toplevel): the client asks for an interactive move
handle_request_move(v) ==
  /\ Budget
  /\ views[v].life = "mapped" /\ view_is_floating(views[v])
  /\ cursor.mode = "PASSTHROUGH"
  /\ DoneCursor(phoc_seat_begin_move(CurWorld, v), v, "begin_move", {})
  /\ UNCHANGED <<outputs, focus, maximize, track, touch_points, seat_touch, children, tree, probe, pointer, layers>>

\* handle_request_resize (xdg toplevel)
handle_request_resize(v, edges) ==
  /\ Budget
  /\ views[v].life = "mapped" /\ view_is_floating(views[v])
  /\ cursor.mode = "PASSTHROUGH"
  /\ DoneCursor(phoc_seat_begin_resize(CurWorld, v, edges), v, "begin_resize", {})
  /\ UNCHANGED <<outputs, focus, maximize, track, touch_points, seat_touch, children, tree, probe, pointer, layers>>

\* mutation: the request is served whatever the cursor is doing
RequestMoveAnyMode(CW, v, seat) ==
  IF seat = NULL THEN CW ELSE phoc_seat_begin_move(CW, v)

\* the body of handle_request_move (xdg toplevel and X11 alike): seat is the
\* seat of the request, NULL when none is found; the cursor is the seat's
RequestMove(CW, v, seat) ==
  IF seat = NULL \/ CW.cursor.mode # "PASSTHROUGH" THEN CW
  ELSE phoc_seat_begin_move(CW, v)

\* the body of handle_request_resize (xdg toplevel and X11 alike)
RequestResize(CW, v, edges, seat) ==
  IF seat = NULL \/ CW.cursor.mode # "PASSTHROUGH" THEN CW
  ELSE phoc_seat_begin_resize(CW, v, edges)

\* a client's move request, whatever the cursor is doing
ClientRequestMove(v, seat) ==
  /\ Budget
  /\ views[v].life = "mapped" /\ view_is_floating(views[v])
  /\ DoneCursor(RequestMove(CurWorld, v, seat), v, "request_move", {})
  /\ UNCHANGED <<outputs, focus, maximize, track, touch_points, seat_touch, children, tree, probe, pointer, layers>>

\* a client's resize request, whatever the cursor is doing
ClientRequestResize(v, edges, seat) ==
  /\ Budget
  /\ views[v].life = "mapped" /\ view_is_floating(views[v])
  /\ DoneCursor(RequestResize(CurWorld, v, edges, seat), v, "request_resize", {})
  /\ UNCHANGED <<outputs, focus, maximize, track, touch_points, seat_touch, children, tree, probe, pointer, layers>>

\* handle_pointer_motion_absolute (no pointer constraint is active)
handle_pointer_motion_absolute(ex, ey) ==
  /\ Budget
  /\ LET p == wlr_cursor_absolute_to_layout_coords(ex, ey)
         CW1 == [CurWorld EXCEPT !.cursor = wlr_cursor_warp_closest(@, p.x, p.y)]
     IN DoneCursor(phoc_cursor_update_position(CW1),
                   IF cursor.mode = "PASSTHROUGH" THEN NULL ELSE focus,
                   "motion", {})
  /\ track' = IF cursor.mode # "PASSTHROUGH" /\ focus # NULL
              THEN [track EXCEPT ![focus] = NoTrack] ELSE track
  /\ pointer' = LET p == wlr_cursor_absolute_to_layout_coords(ex, ey)
              IN Gestured("MOTION_NOTIFY", p.x, p.y)
  /\ UNCHANGED <<outputs, focus, maximize, touch_points, seat_touch, children, tree, probe, layers>>

\* the release branch of phoc_cursor_press_button and
\* phoc_cursor_handle_touch_up: the grab ends
EndGrab(CW) ==
  IF CW.cursor.mode = "PASSTHROUGH" THEN CW
  ELSE LET CW1 == IF CW.cursor.view_state.view # NULL
                  THEN phoc_cursor_submit_pending_view_state_change(CW)
                  ELSE CW
       IN phoc_cursor_update_focus([CW1 EXCEPT !.cursor.mode = "PASSTHROUGH"])

\* handle_pointer_button, phoc_cursor_press_button
handle_pointer_button(button, state, meta) ==
  LET view == phoc_desktop_surface_at(views, cursor.x, cursor.y)
      grab == state = "PRESSED" /\ view # NULL /\ meta
      edges == {IF cursor.x - views[view].box.x < views[view].box.width \div 2
                THEN "LEFT" ELSE "RIGHT",
                IF cursor.y - views[view].box.y < views[view].box.height \div 2
                THEN "TOP" ELSE "BOTTOM"}
      CW == IF grab
            THEN LET CW1 == SeatSetFocus(CurWorld, view)
                 IN IF button = "LEFT" THEN phoc_seat_begin_move(CW1, view)
                    ELSE phoc_seat_begin_resize(CW1, view, edges)
            ELSE IF state = "RELEASED" THEN EndGrab(CurWorld)
            ELSE IF view # NULL THEN SeatSetFocus(CurWorld, view)
            ELSE CurWorld
      target == IF state = "RELEASED" THEN cursor.view_state.view ELSE view
  IN /\ Budget
     /\ grab => view_is_floating(views[view])
     /\ DoneCursor(CW, target,
                   IF state = "RELEASED" THEN "button_release" ELSE "button_press", {})
     /\ focus' = IF state = "PRESSED" /\ view # NULL THEN view ELSE focus
     /\ track' = IF target # NULL THEN [track EXCEPT ![target] = NoTrack] ELSE track
     /\ pointer' = Gestured(IF state = "RELEASED" THEN "BUTTON_RELEASE" ELSE "BUTTON_PRESS",
                          cursor.x, cursor.y)
     /\ UNCHANGED <<outputs, maximize, touch_points, seat_touch, children, tree, probe, layers>>

\* mutation: every touch-down takes the seat's primary touch id
touch_down_usurps_primary(st, mode) == TRUE

\* phoc_cursor_handle_touch_down: does this touch become the primary one
touch_down_claims_primary(st, mode) ==
  st.touch_id = -1 /\ mode = "PASSTHROUGH"

\* phoc_cursor_handle_touch_down
phoc_cursor_handle_touch_down(id, ex, ey) ==
  LET p == wlr_cursor_absolute_to_layout_coords(ex, ey)
      view == phoc_desktop_surface_at(views, p.x, p.y)
      primary == touch_down_claims_primary(seat_touch, cursor.mode)
      CW == IF view # NULL THEN SeatSetFocus(CurWorld, view) ELSE CurWorld
  IN /\ Budget
     /\ touch_points' = phoc_cursor_add_touch_point(touch_points, id, p.x, p.y)
     /\ seat_touch' =
          [seat_touch EXCEPT
             !.touch_id = IF primary THEN id ELSE @,
             !.touch_x = IF primary THEN p.x ELSE @,
             !.touch_y = IF primary THEN p.y ELSE @,
             !.points = IF view # NULL THEN @ \cup {id} ELSE @]
     /\ DoneTouch(CW, view, "touch_down",
                  IF touch_points[id].tracked THEN {"g_critical"} ELSE {},
                  [id |-> id, x |-> p.x, y |-> p.y])
     /\ focus' = IF view # NULL THEN view ELSE focus
     /\ pointer' = Gestured("TOUCH_BEGIN", p.x, p.y)
     /\ UNCHANGED <<outputs, maximize, track, children, tree, probe, layers>>

\* phoc_cursor_handle_touch_up
phoc_cursor_handle_touch_up(id) ==
  LET known == phoc_cursor_get_touch_point(touch_points, id)
      point == id \in seat_touch.points
      target == IF known /\ point /\ cursor.mode # "PASSTHROUGH"
                THEN cursor.view_state.view ELSE NULL
  IN /\ Budget
     /\ touch_points' = IF known THEN phoc_cursor_remove_touch_point(touch_points, id)
                        ELSE touch_points
     /\ seat_touch' =
          IF ~known THEN seat_touch
          ELSE [seat_touch EXCEPT !.touch_id = IF @ = id THEN -1 ELSE @,
                                  !.points = @ \ {id}]
     /\ DoneTouch(IF known /\ point THEN EndGrab(CurWorld) ELSE CurWorld,
                  target, "touch_up", {}, [id |-> id, x |-> 0, y |-> 0])
     /\ track' = IF target # NULL THEN [track EXCEPT ![target] = NoTrack] ELSE track
     /\ pointer' = IF known THEN Gestured("TOUCH_END", touch_points[id].lx, touch_points[id].ly)
                 ELSE Gestured("NONE", 0, 0)
     /\ UNCHANGED <<outputs, focus, maximize, children, tree, probe, layers>>

\* phoc_cursor_handle_touch_motion
phoc_cursor_handle_touch_motion(id, ex, ey) ==
  LET p == wlr_cursor_absolute_to_layout_coords(ex, ey)
      upd == phoc_cursor_update_touch_point(touch_points, id, p.x, p.y)
      point == id \in seat_touch.points
      output == wlr_output_layout_output_at(outputs, p.x, p.y)
      routed == upd.ok /\ point /\ output # NULL /\ id = seat_touch.touch_id
      grabbed == routed /\ cursor.mode # "PASSTHROUGH"
      CW == IF grabbed
            THEN phoc_cursor_update_position(
                   [CurWorld EXCEPT !.cursor.x = p.x, !.cursor.y = p.y])
            ELSE CurWorld
  IN /\ Budget
     /\ touch_points' = upd.points
     /\ seat_touch' = IF routed
                      THEN [seat_touch EXCEPT !.touch_x = p.x, !.touch_y = p.y]
                      ELSE seat_touch
     /\ DoneTouch(CW, IF grabbed THEN focus ELSE NULL, "touch_motion",
                  IF upd.ok THEN {} ELSE {"g_critical"},
                  [id |-> id, x |-> p.x, y |-> p.y])
     /\ track' = IF grabbed /\ focus # NULL
                 THEN [track EXCEPT ![focus] = NoTrack] ELSE track
     /\ pointer' = IF upd.ok THEN Gestured("TOUCH_UPDATE", p.x, p.y)
                 ELSE Gestured("NONE", 0, 0)
     /\ UNCHANGED <<outputs, focus, maximize, children, tree, probe, layers>>

----------------------------------------------------------------------------
(* Layer surfaces (layer-surface.c).  A listener's link is "unset" before  *)
(* wl_signal_add, "linked" after it and "removed" after wl_list_remove;    *)
(* wl_list_remove of a link that is not linked reads through NULL.  calls  *)
(* lists what the running handler called, with the output it passed, NULL  *)
(* for calls that take no output.                                          *)

LayerIds == {1, 2}
CallbackIds == {1, 2}
MaxSubsurfaces == 2

NoLayerSurface ==
  [life |-> "none", output |-> NULL, mapped |-> FALSE, surface_mapped |-> FALSE,
   subsurfaces |-> 0, new_subsurface |-> "unset", output_destroy |-> "unset",
   output_destroy_unlinks |-> 0, frame_callbacks |-> {}, calls |-> << >>,
   fault |-> FALSE]

Called(L, op, output) ==
  [L EXCEPT !.calls = Append(@, [op |-> op, output |-> output])]

\* wl_list_remove of the listener in field f
wl_list_remove(L, f) ==
  IF L[f] # "linked" THEN [L EXCEPT !.fault = TRUE]
  ELSE [L EXCEPT ![f] = "removed",
                 !.output_destroy_unlinks =
                    IF f = "output_destroy" THEN @ + 1 ELSE @]

\* phoc_layer_surface_get_output
phoc_layer_surface_get_output(L) == L.output

\* phoc_layer_surface_new, phoc_layer_surface_constructed: the wlr layer
\* surface has an output
phoc_layer_surface_constructed(output) ==
  [NoLayerSurface EXCEPT !.life = "alive", !.output = output,
                         !.output_destroy = "linked"]

\* phoc_layer_surface_damage
phoc_layer_surface_damage(L) ==
  IF L.output = NULL THEN L ELSE Called(L, "phoc_output_damage_whole_surface", L.output)

\* phoc_layer_surface_add_frame_callback: the output hands out id
phoc_layer_surface_add_frame_callback(L, id) ==
  LET output == phoc_layer_surface_get_output(L)
  IN [Called(L, "phoc_output_add_frame_callback", output)
        EXCEPT !.frame_callbacks = @ \cup {id}]

\* phoc_layer_surface_remove_frame_callback
phoc_layer_surface_remove_frame_callback(L, id) ==
  LET output == phoc_layer_surface_get_output(L)
  IN IF L.output # NULL
     THEN [Called(L, "phoc_output_remove_frame_callback", output)
             EXCEPT !.frame_callbacks = @ \ {id}]
     ELSE L

\* handle_new_subsurface
layer_surface_handle_new_subsurface(L) == [L EXCEPT !.subsurfaces = @ + 1]

\* handle_map of a layer surface whose wlr surface has n subsurfaces
layer_surface_handle_map(L, n) ==
  LET output == phoc_layer_surface_get_output(L)
  IN IF output = NULL THEN L
     ELSE LET L1 == [L EXCEPT !.mapped = TRUE, !.subsurfaces = @ + n,
                              !.new_subsurface = "linked"]
              L2 == Called(L1, "phoc_output_damage_whole_surface", output)
              L3 == Called(L2, "phoc_utils_wlr_surface_enter_output", output)
              L4 == Called(L3, "phoc_layer_shell_arrange", output)
          IN Called(L4, "phoc_layer_shell_update_focus", NULL)

\* mutation: the unmap handler leaves the new-subsurface listener in place
layer_surface_handle_unmap_keeps_listener(L) ==
  LET output == phoc_layer_surface_get_output(L)
      L1 == [L EXCEPT !.mapped = FALSE]
      L2 == IF L1.subsurfaces = 0 THEN L1
            ELSE [Called(L1, "phoc_layer_subsurface_destroy", NULL)
                    EXCEPT !.subsurfaces = 0]
      L4 == phoc_layer_surface_damage(L2)
      L5 == Called(L4, "phoc_input_update_cursor_focus", NULL)
      L6 == IF output # NULL THEN Called(L5, "phoc_layer_shell_arrange", output) ELSE L5
  IN Called(L6, "phoc_layer_shell_update_focus", NULL)

\* handle_unmap of a layer surface
layer_surface_handle_unmap(L) ==
  LET output == phoc_layer_surface_get_output(L)
      L1 == [L EXCEPT !.mapped = FALSE]
      L2 == IF L1.subsurfaces = 0 THEN L1
            ELSE [Called(L1, "phoc_layer_subsurface_destroy", NULL)
                    EXCEPT !.subsurfaces = 0]
      L3 == wl_list_remove(L2, "new_subsurface")
      L4 == phoc_layer_surface_damage(L3)
      L5 == Called(L4, "phoc_input_update_cursor_focus", NULL)
      L6 == IF output # NULL THEN Called(L5, "phoc_layer_shell_arrange", output) ELSE L5
  IN Called(L6, "phoc_layer_shell_update_focus", NULL)

\* mutation: finalization takes the output for granted
phoc_layer_surface_finalize_any_output(L) ==
  LET output == phoc_layer_surface_get_output(L)
      L1 == IF L.surface_mapped THEN phoc_layer_surface_damage(L) ELSE L
      L2 == Called(L1, "phoc_output_set_layer_dirty", output)
      L3 == [Called(L2, "phoc_output_remove_frame_callbacks_by_animatable", output)
               EXCEPT !.frame_callbacks = {}]
      L4 == wl_list_remove(L3, "output_destroy")
      L5 == Called(L4, "phoc_layer_shell_arrange", output)
      L6 == Called(L5, "phoc_layer_shell_update_focus", NULL)
  IN [L6 EXCEPT !.life = "finalized"]

\* phoc_layer_surface_finalize
phoc_layer_surface_finalize(L) ==
  LET output == phoc_layer_surface_get_output(L)
      L1 == IF L.surface_mapped THEN phoc_layer_surface_damage(L) ELSE L
      L2 == IF output # NULL THEN Called(L1, "phoc_output_set_layer_dirty", output) ELSE L1
      L6 == IF output = NULL THEN L2
            ELSE LET L3 == [Called(L2, "phoc_output_remove_frame_callbacks_by_animatable",
                                 output)
                              EXCEPT !.frame_callbacks = {}]
                     L4 == wl_list_remove(L3, "output_destroy")
                     L5 == Called(L4, "phoc_layer_shell_arrange", output)
                 IN Called(L5, "phoc_layer_shell_update_focus", NULL)
  IN [L6 EXCEPT !.life = "finalized"]

RECURSIVE RemoveFrameCallbacks(_, _)
\* the owners of the frame callbacks in ids remove them
RemoveFrameCallbacks(L, ids) ==
  IF ids = {} THEN L
  ELSE LET id == CHOOSE i \in ids : \A j \in ids : i <= j
       IN RemoveFrameCallbacks(phoc_layer_surface_remove_frame_callback(L, id),
                               ids \ {id})

\* the wlr layer surface is destroyed: a mapped surface is unmapped, the owners
\* of the frame callbacks in drop remove theirs, and handle_destroy drops the
\* last reference
layer_surface_destroy(L, drop) ==
  LET L1 == IF L.surface_mapped
            THEN layer_surface_handle_unmap([L EXCEPT !.surface_mapped = FALSE])
            ELSE L
      L2 == RemoveFrameCallbacks(L1, drop \cap L1.frame_callbacks)
  IN phoc_layer_surface_finalize(L2)

\* handle_output_destroy of a layer surface
layer_surface_handle_output_destroy(L, drop) ==
  LET L1 == [L EXCEPT !.output = NULL]
      L2 == wl_list_remove(L1, "output_destroy")
  IN layer_surface_destroy(L2, drop)

----------------------------------------------------------------------------

\* an output that shows no fullscreen view leaves the layout; its layer
\* surfaces go with it
handle_output_destroy(o) ==
  /\ Budget
  /\ o \in outputs /\ outputs # {o}
  /\ fullscreen_view[o] = NULL
  /\ Tick
  /\ outputs' = outputs \ {o}
  /\ cursor' = WeakOutput(cursor, o)
  /\ effects' = Effect(NULL, "output_destroy", {})
  /\ \E drop \in SUBSET CallbackIds :
       layers' = [l \in LayerIds |->
                   IF layers[l].life = "alive" /\ layers[l].output = o
                   THEN layer_surface_handle_output_destroy(
                          [layers[l] EXCEPT !.calls = << >>], drop)
                   ELSE [layers[l] EXCEPT !.calls = << >>]]
  /\ UNCHANGED <<views, fullscreen_view, focus, maximize, track, touch_points,
                 seat_touch, children, tree, probe, pointer>>

\* a handler of layer surface l returns and leaves it as L
DoneLayer(l, L, op) ==
  /\ ~layers[l].fault
  /\ layers' = [k \in LayerIds |->
                 IF k = l THEN L ELSE [layers[k] EXCEPT !.calls = << >>]]
  /\ effects' = Effect(l, op, {})
  /\ UNCHANGED <<views, fullscreen_view, outputs, focus, maximize, track, cursor,
                 touch_points, seat_touch, children, tree, probe, pointer, steps>>

Running(l) == [layers[l] EXCEPT !.calls = << >>]

\* a client creates a layer surface on an output
LayerSurfaceNew(l, o) ==
  /\ layers[l].life = "none" /\ o \in outputs
  /\ DoneLayer(l, phoc_layer_surface_constructed(o), "layer_new")

\* the wlr surface is mapped
LayerSurfaceMap(l, n) ==
  /\ layers[l].life = "alive" /\ ~layers[l].surface_mapped
  /\ DoneLayer(l, layer_surface_handle_map(
                     [Running(l) EXCEPT !.surface_mapped = TRUE], n), "layer_map")

\* a subsurface is added to the mapped wlr surface
LayerSurfaceNewSubsurface(l) ==
  /\ layers[l].life = "alive" /\ layers[l].new_subsurface = "linked"
  /\ layers[l].subsurfaces < MaxSubsurfaces
  /\ DoneLayer(l, layer_surface_handle_new_subsurface(Running(l)),
               "layer_new_subsurface")

\* the wlr surface is unmapped
LayerSurfaceUnmap(l) ==
  /\ layers[l].life = "alive" /\ layers[l].surface_mapped
  /\ DoneLayer(l, layer_surface_handle_unmap(
                     [Running(l) EXCEPT !.surface_mapped = FALSE]), "layer_unmap")

\* the client destroys the layer surface
LayerSurfaceDestroy(l, drop) ==
  /\ layers[l].life = "alive"
  /\ DoneLayer(l, layer_surface_destroy(Running(l), drop), "layer_destroy")

\* an animation of the layer surface asks for frame callbacks
LayerSurfaceAddFrameCallback(l, id) ==
  /\ layers[l].life = "alive" /\ id \notin layers[l].frame_callbacks
  /\ DoneLayer(l, phoc_layer_surface_add_frame_callback(Running(l), id),
               "layer_add_frame_callback")

\* and gives one up
LayerSurfaceRemoveFrameCallback(l, id) ==
  /\ layers[l].life = "alive" /\ id \in layers[l].frame_callbacks
  /\ DoneLayer(l, phoc_layer_surface_remove_frame_callback(Running(l), id),
               "layer_remove_frame_callback")

----------------------------------------------------------------------------
(* Pointer focus, pointer constraints and the cursor image (cursor.c).     *)
(* Surface 1 belongs to toplevel view 1, surface 2 is a layer surface and  *)
(* belongs to no view.  Each surface is of its own client, named like the  *)
(* surface, and may carry one pointer constraint, named like the surface.  *)
(* Positions and regions are chosen integral, as doubles they are exact.   *)

Surfaces == {1, 2}

\* width and height of both surfaces
SurfaceSize == 4

\* layout position of the layer surface; the view is at (view_x, 0)
LayerX == 6
ViewXs == {0, 2}

\* width of the right border of the decorated view
DecoBorder == 2

\* what a read through the NULL pointer_view yields: a fault (Fault), or
\* some view position
Fault == -1

\* pixman_box32_t
PBox(x1, y1, x2, y2) == [x1 |-> x1, y1 |-> y1, x2 |-> x2, y2 |-> y2]

\* regions a client sets on its constraint, as lists of rectangles
Regions == {<< >>, <<PBox(0, 0, 4, 4)>>, <<PBox(2, 0, 4, 2)>>}

pixman_region32_contains_point(region, x, y) ==
  \E i \in DOMAIN region :
    /\ x >= region[i].x1 /\ x < region[i].x2
    /\ y >= region[i].y1 /\ y < region[i].y2

\* wlr_region_confine for a region of at most one rectangle: no result when
\* the start point is outside, else the end point clamped into the rectangle
wlr_region_confine(region, sx1, sy1, sx2, sy2) ==
  IF ~pixman_region32_contains_point(region, sx1, sy1)
  THEN [ok |-> FALSE, x |-> sx1, y |-> sy1]
  ELSE [ok |-> TRUE,
        x |-> ClampTo(sx2, region[1].x1, region[1].x2 - region[1].x1),
        y |-> ClampTo(sy2, region[1].y1, region[1].y2 - region[1].y1)]

NoConstraint == [type |-> "NONE", region |-> << >>, active |-> FALSE]

\* the cursor rests on the empty part of the layout, nothing has focus
NoPointer ==
  [x |-> 6, y |-> 5, mode |-> "PASSTHROUGH", pointer_view |-> NULL,
   focused_surface |-> NULL, active_constraint |-> NULL,
   constraint_commit |-> NULL, confine |-> << >>,
   cursor_client |-> NULL, image |-> "default", view_x |-> 0,
   constraints |-> [c \in Surfaces |-> NoConstraint],
   gestures |-> << >>, delivered |-> << >>, log |-> << >>,
   fault |-> FALSE, wlr_surface |-> NULL, has_button_grab |-> FALSE,
   decorated |-> FALSE, denied |-> {}, sent |-> << >>,
   touch_surface |-> [i \in TouchIds |-> NULL],
   shell_layers |-> {}, fullscreen |-> {},
   force_shell_reveal |-> [o \in Outputs |-> FALSE]]

\* phoc_desktop_surface_at: surface, surface-local position and view, if any;
\* right of the surface of a decorated view lies its right border
desktop_surface_at(P, lx, ly) ==
  IF /\ lx >= P.view_x /\ lx < P.view_x + SurfaceSize
     /\ ly >= 0 /\ ly < SurfaceSize
  THEN [surface |-> 1, view |-> 1, sx |-> lx - P.view_x, sy |-> ly]
  ELSE IF /\ P.decorated
          /\ lx >= P.view_x + SurfaceSize
          /\ lx < P.view_x + SurfaceSize + DecoBorder
          /\ ly >= 0 /\ ly < SurfaceSize
  THEN [surface |-> NULL, view |-> 1, sx |-> lx - P.view_x, sy |-> ly]
  ELSE IF /\ lx >= LayerX /\ lx < LayerX + SurfaceSize
          /\ ly >= 0 /\ ly < SurfaceSize
  THEN [surface |-> 2, view |-> NULL, sx |-> lx - LayerX, sy |-> ly]
  ELSE [surface |-> NULL, view |-> NULL, sx |-> 0, sy |-> 0]

\* wlr_pointer_constraints_v1_constraint_for_surface
constraint_for_surface(P, surface) ==
  IF surface = NULL THEN NULL
  ELSE IF P.constraints[surface].type = "NONE" THEN NULL
  ELSE surface

\* wlr_pointer_constraint_v1_send_activated / _send_deactivated
Send(P, signal, constraint) ==
  [P EXCEPT !.log = Append(@, <<signal, constraint>>),
            !.constraints[constraint].active = (signal = "activated")]

\* mutation: the constraint that was active is not told that it no longer is
phoc_cursor_constrain_silently(P, constraint, sx, sy, ub) ==
  IF P.active_constraint = constraint THEN P
  ELSE LET P1 == [P EXCEPT !.constraint_commit = NULL]
           P2 == P1
           P3 == [P2 EXCEPT !.active_constraint = constraint]
       IN IF constraint = NULL THEN P3
          ELSE LET region == P.constraints[constraint].region
                   P4 == [Send(P3, "activated", constraint) EXCEPT
                            \* the surface of a constraint is named like it
                            !.constraint_commit = constraint,
                            !.confine = << >>]
                   view_x == IF P4.pointer_view = NULL THEN ub ELSE P4.view_x
                   P5 == IF ~pixman_region32_contains_point(region, sx, sy)
                            /\ Len(region) > 0
                         THEN (IF view_x = Fault THEN [P4 EXCEPT !.fault = TRUE]
                               ELSE wlr_cursor_warp_closest(
                                      P4,
                                      view_x + (region[1].x1 + region[1].x2) \div 2,
                                      (region[1].y1 + region[1].y2) \div 2))
                         ELSE P4
               IN IF P.constraints[constraint].type = "CONFINED"
                  THEN [P5 EXCEPT !.confine = region] ELSE P5

\* phoc_cursor_constrain; ub is what reading through a NULL pointer_view
\* yields
phoc_cursor_constrain(P, constraint, sx, sy, ub) ==
  IF P.active_constraint = constraint THEN P
  ELSE LET P1 == [P EXCEPT !.constraint_commit = NULL]
           P2 == IF P.active_constraint # NULL
                 THEN Send(P1, "deactivated", P.active_constraint) ELSE P1
           P3 == [P2 EXCEPT !.active_constraint = constraint]
       IN IF constraint = NULL THEN P3
          ELSE LET region == P.constraints[constraint].region
                   P4 == [Send(P3, "activated", constraint) EXCEPT
                            \* the surface of a constraint is named like it
                            !.constraint_commit = constraint,
                            !.confine = << >>]
                   view_x == IF P4.pointer_view = NULL THEN ub ELSE P4.view_x
                   P5 == IF ~pixman_region32_contains_point(region, sx, sy)
                            /\ Len(region) > 0
                         THEN (IF view_x = Fault THEN [P4 EXCEPT !.fault = TRUE]
                               ELSE wlr_cursor_warp_closest(
                                      P4,
                                      view_x + (region[1].x1 + region[1].x2) \div 2,
                                      (region[1].y1 + region[1].y2) \div 2))
                         ELSE P4
               IN IF P.constraints[constraint].type = "CONFINED"
                  THEN [P5 EXCEPT !.confine = region] ELSE P5

phoc_cursor_handle_focus_change(P, new_surface, sx, sy, ub) ==
  phoc_cursor_constrain(P, constraint_for_surface(P, new_surface), sx, sy, ub)

\* send_pointer_enter / send_pointer_clear_focus: the seat's pointer focus
\* moves to the surface (NULL: to none) and the focus change is signalled
wlr_seat_pointer_notify_enter(P, surface, sx, sy, ub) ==
  IF P.focused_surface = surface THEN P
  ELSE phoc_cursor_handle_focus_change(
         [P EXCEPT !.focused_surface = surface,
                   !.sent = Append(@, <<IF surface = NULL THEN "clear_focus"
                                        ELSE "enter", surface>>)],
         surface, sx, sy, ub)

\* send_pointer_motion
send_pointer_motion(P, surface) ==
  [P EXCEPT !.sent = Append(@, <<"motion", surface>>)]

\* phoc_seat_allow_input: each surface is of its own client
phoc_seat_allow_input(P, surface) == surface \notin P.denied

\* seat_view_deco_leave of the seat view of view 1
seat_view_deco_leave(P) ==
  [P EXCEPT !.image = "default", !.has_button_grab = FALSE,
            !.sent = Append(@, <<"deco_leave", P.pointer_view>>)]

\* seat_view_deco_motion over the right border: a button grab turns into an
\* interactive resize, else the cursor shows the resize image
seat_view_deco_motion(P) ==
  IF P.has_button_grab
  THEN [P EXCEPT !.mode = "RESIZE", !.has_button_grab = FALSE]
  ELSE [P EXCEPT !.image = "right_side"]

\* seat_view_deco_button over the right border
seat_view_deco_button(P, button, state) ==
  [P EXCEPT !.has_button_grab = (button = "LEFT" /\ state = "PRESSED")]

\* phoc_passthrough_cursor, as far as pointer focus, decoration and cursor
\* image go
phoc_passthrough_cursor_focus(P, ub) ==
  LET at == desktop_surface_at(P, P.x, P.y)
      client == at.surface
      P1 == IF P.cursor_client # client \/ client = NULL
            THEN [P EXCEPT !.image = "default", !.cursor_client = client]
            ELSE P
      P2 == IF /\ at.view # NULL
               /\ P.pointer_view # NULL /\ P.wlr_surface = NULL
               /\ (at.surface # NULL \/ at.view # P.pointer_view)
            THEN seat_view_deco_leave(P1) ELSE P1
      P3 == [P2 EXCEPT !.pointer_view = at.view]
      P4 == IF at.view # NULL /\ at.surface = NULL
            THEN seat_view_deco_motion(P3) ELSE P3
      P5 == [P4 EXCEPT !.wlr_surface = at.surface]
  IN IF at.surface # NULL /\ ~phoc_seat_allow_input(P, at.surface) THEN P
     ELSE IF at.surface # NULL
     THEN send_pointer_motion(
            wlr_seat_pointer_notify_enter(P5, at.surface, at.sx, at.sy, ub),
            at.surface)
     ELSE wlr_seat_pointer_notify_enter(P5, NULL, at.sx, at.sy, ub)

\* phoc_cursor_update_position: in a grab the view follows, focus rests
phoc_cursor_update_position_focus(P, ub) ==
  IF P.mode = "PASSTHROUGH" THEN phoc_passthrough_cursor_focus(P, ub) ELSE P

\* a handler of the cursor, run for surface or client s, returns with
\* pointer state P
DonePointerOn(P, s, op) ==
  /\ Tick
  /\ ~pointer.fault
  /\ pointer' = P
  /\ effects' = Effect(s, op, {})
  /\ UNCHANGED <<views, fullscreen_view, outputs, focus, maximize, track, cursor,
                 touch_points, seat_touch, children, tree, probe, layers>>

DonePointer(P, op) == DonePointerOn(P, NULL, op)

\* the outcomes of handler H: one if it reads through no NULL pointer_view,
\* else one for each thing such a read may yield
Outcomes(H(_)) ==
  UNION {IF f.fault THEN {f} \cup {H(ub) : ub \in ViewXs} ELSE {f} :
           f \in {H(Fault)}}

\* handle_pointer_motion: relative motion by (dx, dy)
PointerMotion(P, dx, dy, ub) ==
  LET view_x == IF P.pointer_view = NULL THEN ub ELSE P.view_x
      sx1 == P.x - view_x
      sy1 == P.y
      confined == wlr_region_confine(P.confine, sx1, sy1, sx1 + dx, sy1 + dy)
      Move(ddx, ddy) ==
        phoc_cursor_update_position_focus(
          wlr_cursor_warp_closest(P, P.x + ddx, P.y + ddy), ub)
  IN IF P.active_constraint # NULL
     THEN (IF view_x = Fault THEN [P EXCEPT !.fault = TRUE]
           ELSE IF ~confined.ok THEN P
           ELSE Move(confined.x - sx1, confined.y - sy1))
     ELSE Move(dx, dy)

handle_pointer_motion(dx, dy) ==
  \E P0 \in {[pointer EXCEPT !.log = << >>, !.sent = << >>]} :
    \E P \in Outcomes(LAMBDA ub : PointerMotion(P0, dx, dy, ub)) :
      DonePointer(P, "pointer_motion")

\* handle_pointer_motion_absolute with pointer constraints
PointerMotionAbsolute(P, ex, ey, ub) ==
  LET p == wlr_cursor_absolute_to_layout_coords(ex, ey)
      held == /\ P.pointer_view # NULL
              /\ P.active_constraint # NULL
              /\ ~pixman_region32_contains_point(P.confine, p.x - P.view_x, p.y)
  IN IF held THEN P
     ELSE phoc_cursor_update_position_focus(
            wlr_cursor_warp_closest(P, p.x, p.y), ub)

pointer_motion_absolute(ex, ey) ==
  \E P0 \in {[pointer EXCEPT !.log = << >>, !.sent = << >>]} :
    \E P \in Outcomes(LAMBDA ub : PointerMotionAbsolute(P0, ex, ey, ub)) :
      DonePointer(P, "pointer_motion_absolute")

\* phoc_cursor_handle_constraint_commit
phoc_cursor_handle_constraint_commit(P, ub) ==
  LET at == desktop_surface_at(P, P.x, P.y)
  IN IF at.surface # P.active_constraint
     THEN phoc_passthrough_cursor_focus(P, ub)
     ELSE phoc_cursor_constrain(P, P.active_constraint, at.sx, at.sy, ub)

\* the client of surface s commits it, with `region` pending as the region
\* of its constraint; handle_constraint_commit runs if it listens to s
handle_constraint_commit(s, region) ==
  \E P0 \in {[pointer EXCEPT !.log = << >>, !.sent = << >>,
                              !.constraints[s].region =
                                 IF pointer.constraints[s].type = "NONE" THEN @
                                 ELSE region]} :
    \E P \in (IF P0.constraint_commit # s THEN {P0}
              ELSE Outcomes(LAMBDA ub :
                              phoc_cursor_handle_constraint_commit(P0, ub))) :
      DonePointerOn(P, s, "constraint_commit")

\* view_update_position on view 1: the view is now at (x, 0)
ViewMoved(x) ==
  /\ x # pointer.view_x
  /\ DonePointer([pointer EXCEPT !.view_x = x, !.log = << >>, !.sent = << >>], "view_moved")

\* phoc_seat_begin_move: a grab begins
GrabBegin ==
  /\ pointer.mode = "PASSTHROUGH"
  /\ DonePointer([pointer EXCEPT !.mode = "MOVE", !.log = << >>, !.sent = << >>], "begin_move")

\* the release branch of phoc_cursor_press_button: the grab ends
GrabEnd ==
  /\ pointer.mode # "PASSTHROUGH"
  /\ \E P0 \in {[pointer EXCEPT !.mode = "PASSTHROUGH", !.log = << >>, !.sent = << >>]} :
       \E P \in Outcomes(LAMBDA ub : phoc_passthrough_cursor_focus(P0, ub)) :
         DonePointer(P, "end_grab")

\* PHOC_SHELL_REVEAL_POINTER_THRESHOLD and PHOC_SHELL_REVEAL_TOUCH_THRESHOLD,
\* on the scale of the layout
PointerThreshold == 0
TouchThreshold == 1

\* does the output have a layer surface of the top layer that is anchored to
\* the edge and to both edges across it
ShellEdge(P, output, edge, across) ==
  \E ls \in P.shell_layers :
    ls.output = output /\ ls.layer = "TOP" /\ ls.anchor = across \cup {edge}

\* mutation: a layer surface of any layer makes its edge reveal the shell
phoc_handle_shell_reveal_any_layer(P, surface, lx, ly, threshold) ==
  LET output == wlr_output_layout_output_at(outputs, lx, ly)
      output_box == wlr_output_layout_get_box(output)
      Edge(edge, across) ==
        \E ls \in P.shell_layers :
          ls.output = output /\ ls.anchor = across \cup {edge}
      top == Edge("TOP", {"LEFT", "RIGHT"})
      bottom == Edge("BOTTOM", {"LEFT", "RIGHT"})
      left == Edge("LEFT", {"TOP", "BOTTOM"})
      right == Edge("RIGHT", {"TOP", "BOTTOM"})
  IN IF surface = 2 \/ output = NULL THEN [revealed |-> FALSE, P |-> P]
     ELSE IF \/ top /\ ly <= output_box.y + threshold
             \/ bottom /\ ly >= output_box.y + output_box.height - 1 - threshold
             \/ left /\ lx <= output_box.x + threshold
             \/ right /\ lx >= output_box.x + output_box.width - 1 - threshold
     THEN [revealed |-> TRUE,
           P |-> IF output \in P.fullscreen
                 THEN [P EXCEPT !.force_shell_reveal[output] = TRUE] ELSE P]
     ELSE [revealed |-> FALSE,
           P |-> [P EXCEPT !.force_shell_reveal[output] = FALSE]]

\* phoc_handle_shell_reveal: [revealed, P]; surface 2 is the layer surface
phoc_handle_shell_reveal(P, surface, lx, ly, threshold) ==
  LET output == wlr_output_layout_output_at(outputs, lx, ly)
      output_box == wlr_output_layout_get_box(output)
      top == ShellEdge(P, output, "TOP", {"LEFT", "RIGHT"})
      bottom == ShellEdge(P, output, "BOTTOM", {"LEFT", "RIGHT"})
      left == ShellEdge(P, output, "LEFT", {"TOP", "BOTTOM"})
      right == ShellEdge(P, output, "RIGHT", {"TOP", "BOTTOM"})
  IN IF surface = 2 \/ output = NULL THEN [revealed |-> FALSE, P |-> P]
     ELSE IF \/ top /\ ly <= output_box.y + threshold
             \/ bottom /\ ly >= output_box.y + output_box.height - 1 - threshold
             \/ left /\ lx <= output_box.x + threshold
             \/ right /\ lx >= output_box.x + output_box.width - 1 - threshold
     THEN [revealed |-> TRUE,
           P |-> IF output \in P.fullscreen
                 THEN [P EXCEPT !.force_shell_reveal[output] = TRUE] ELSE P]
     ELSE [revealed |-> FALSE,
           P |-> [P EXCEPT !.force_shell_reveal[output] = FALSE]]

\* phoc_cursor_press_button without meta key, as far as the decoration, the
\* end of a grab and the shell go
PointerButton(P, button, state, threshold, ub) ==
  LET at == desktop_surface_at(P, P.x, P.y)
      P1 == IF at.view # NULL /\ at.surface = NULL /\ P.pointer_view # NULL
            THEN seat_view_deco_button(P, button, state) ELSE P
      P2 == IF state = "RELEASED" /\ P1.mode # "PASSTHROUGH"
            THEN phoc_passthrough_cursor_focus(
                   [P1 EXCEPT !.mode = "PASSTHROUGH"], ub)
            ELSE P1
      reveal == phoc_handle_shell_reveal(P2, at.surface, P.x, P.y, threshold)
  IN IF reveal.revealed THEN reveal.P
     ELSE [reveal.P EXCEPT !.sent = Append(@, <<"button", at.surface>>)]

pointer_button(button, state, threshold) ==
  \E P0 \in {[pointer EXCEPT !.log = << >>, !.sent = << >>]} :
    \E P \in Outcomes(LAMBDA ub : PointerButton(P0, button, state, threshold, ub)) :
      DonePointerOn(P, threshold, "pointer_button")

\* mutation: touch reaches the surface whatever the seat's policy
TouchDownUnchecked(P, id, lx, ly, threshold) ==
  LET at == desktop_surface_at(P, lx, ly)
      reveal == phoc_handle_shell_reveal(P, at.surface, lx, ly, threshold)
  IN IF ~reveal.revealed /\ at.surface # NULL
     THEN [reveal.P EXCEPT !.sent = Append(@, <<"touch_down", at.surface>>),
                           !.touch_surface[id] = at.surface]
     ELSE reveal.P

\* phoc_cursor_handle_touch_down, as far as the shell and the client of the
\* surface go: send_touch_down makes the touch point of the seat
TouchDown(P, id, lx, ly, threshold) ==
  LET at == desktop_surface_at(P, lx, ly)
      reveal == phoc_handle_shell_reveal(P, at.surface, lx, ly, threshold)
  IN IF /\ ~reveal.revealed /\ at.surface # NULL
        /\ phoc_seat_allow_input(P, at.surface)
     THEN [reveal.P EXCEPT !.sent = Append(@, <<"touch_down", at.surface>>),
                           !.touch_surface[id] = at.surface]
     ELSE reveal.P

touch_down(id, ex, ey, threshold) ==
  /\ pointer.touch_surface[id] = NULL
  /\ ~pointer.fault
  /\ Tick
  /\ \E p \in {wlr_cursor_absolute_to_layout_coords(ex, ey)} :
       /\ pointer' = TouchDown([pointer EXCEPT !.log = << >>, !.sent = << >>],
                               id, p.x, p.y, threshold)
       /\ effects' = [Effect(threshold, "touch_down_at", {})
                        EXCEPT !.touch = [id |-> id, x |-> p.x, y |-> p.y]]
  /\ UNCHANGED <<views, fullscreen_view, outputs, focus, maximize, track, cursor,
                 touch_points, seat_touch, children, tree, probe, layers>>

\* phoc_cursor_handle_touch_motion, as far as the client of the surface goes
TouchMotion(P, id, lx, ly) ==
  LET surface == P.touch_surface[id]
      output == wlr_output_layout_output_at(outputs, lx, ly)
  IN IF surface = NULL \/ output = NULL THEN P
     ELSE IF phoc_seat_allow_input(P, surface)
     THEN [P EXCEPT !.sent = Append(@, <<"touch_motion", surface>>)]
     ELSE P

touch_motion(id, ex, ey) ==
  \E p \in {wlr_cursor_absolute_to_layout_coords(ex, ey)} :
    DonePointer(TouchMotion([pointer EXCEPT !.log = << >>, !.sent = << >>],
                            id, p.x, p.y), "touch_motion_at")

\* phoc_cursor_handle_touch_up: the touch point of the seat is gone
touch_up(id) ==
  /\ pointer.touch_surface[id] # NULL
  /\ DonePointer([pointer EXCEPT !.log = << >>, !.sent = << >>,
                                 !.touch_surface[id] = NULL], "touch_up_at")

\* the seat's policy changes: input to the clients in denied is refused
SeatPolicy(denied) ==
  /\ denied # pointer.denied
  /\ DonePointer([pointer EXCEPT !.log = << >>, !.sent = << >>,
                                 !.denied = denied], "seat_policy")

\* the drag gesture that phoc_cursor_init registers, and recognizers that
\* other parts of the compositor register
GestureDrag == 1
Gestures == {1, 2, 3}
MaxGestures == 3

\* phoc_cursor_add_gesture
phoc_cursor_add_gesture(gesture) ==
  /\ Len(pointer.gestures) < MaxGestures
  /\ DonePointer([pointer EXCEPT !.gestures = Append(@, gesture),
                                 !.delivered = << >>, !.log = << >>, !.sent = << >>],
                 "add_gesture")

\* mutation: any client may set the cursor image
phoc_cursor_handle_request_set_cursor_any(P, client, surface) ==
  [P EXCEPT !.image = surface, !.cursor_client = client]

\* phoc_cursor_handle_request_set_cursor
phoc_cursor_handle_request_set_cursor(P, client, surface) ==
  LET focused_surface == P.focused_surface
      has_focused == focused_surface # NULL
      \* the client of a surface is named like the surface
      focused_client == IF has_focused THEN focused_surface ELSE NULL
  IN IF client # focused_client \/ P.mode # "PASSTHROUGH" THEN P
     ELSE [P EXCEPT !.image = surface, !.cursor_client = client]

\* cursor images of the clients
CursorImages == {"arrow", "hand"}

\* clients 1 and 2 own surfaces 1 and 2, client 3 owns none
Clients == {1, 2, 3}

RequestSetCursor(client, surface) ==
  DonePointerOn(phoc_cursor_handle_request_set_cursor(
                  [pointer EXCEPT !.log = << >>, !.sent = << >>], client, surface),
                client, "request_set_cursor")

----------------------------------------------------------------------------
(* Specification of the view state machine *)

NoEffects == Effect(NULL, "init", {})


InitView ==
  /\ views = [v \in Views |-> NoView]
  /\ fullscreen_view = [o \in Outputs |-> NULL]
  /\ outputs = Outputs
  /\ focus = NULL
  /\ maximize \in BOOLEAN
  /\ effects = NoEffects
  /\ track = [v \in Views |-> NoTrack]
  /\ cursor = phoc_cursor_init
  /\ touch_points = [i \in TouchIds |-> NoTouchPoint]
  /\ seat_touch = NoSeatTouch
  /\ children = [c \in ChildIds |-> NoChild]
  /\ tree = [v \in TreeViews |-> NoTreeView]
  /\ probe = NoProbe
  /\ steps = 0
  /\ pointer = NoPointer
  /\ layers = [l \in LayerIds |-> NoLayerSurface]

MapSizes(V) ==
  IF V.scheduled.width > 0 /\ V.scheduled.height > 0 THEN {V.scheduled}
  ELSE ClientSizes

\* the sizes a commit may carry: the size the acked configure asked for, or a
\* size of the client's choosing when it left the size open
CommitSizes(V, serial) ==
  IF serial = 0 THEN {Size(V.box.width, V.box.height)}
  ELSE IF serial > Len(V.confs) THEN {}
  ELSE IF V.confs[serial].width = 0 THEN ClientSizes
  ELSE {V.confs[serial]}

\* one toplevel: creation, map, maximize/restore, tile, fullscreen, commits
NextView ==
  \/ \E hasParent \in BOOLEAN :
       handle_xdg_shell_surface(1, hasParent, FALSE, FALSE, NULL)
  \/ \E g \in Geoms, co \in outputs : \E size \in MapSizes(views[1]) :
       handle_map(1, size, g, co)
  \/ handle_destroy(1)
  \/ \E maximized \in BOOLEAN : handle_request_maximize(1, maximized)
  \/ \E serial \in 0..MaxSerial, g \in Geoms, co \in outputs :
       \E size \in CommitSizes(views[1], serial) :
         SurfaceCommit(1, serial, size, g, co)
  \/ \E v \in {1, NULL} : SetFocus(v)
  \/ \E o \in outputs : MaximizeView(1, o)
  \/ \E d \in {"LEFT", "RIGHT"} : TileView(1, d, NULL)
  \/ \E fullscreen \in BOOLEAN, o \in OptOutputs :
       handle_request_fullscreen(1, fullscreen, o)

SpecView == InitView /\ [][NextView]_vars

\* one toplevel whose move-resize requests (maximize, restore, tile) are
\* completed by the client's commits
NextCommit ==
  \/ handle_xdg_shell_surface(1, TRUE, FALSE, FALSE, NULL)
  \/ \E g \in Geoms, co \in outputs : \E size \in MapSizes(views[1]) :
       handle_map(1, size, g, co)
  \/ \E maximized \in BOOLEAN : handle_request_maximize(1, maximized)
  \/ \E d \in {"LEFT", "RIGHT"}, o \in outputs : TileView(1, d, o)
  \/ \E serial \in 0..MaxSerial, g \in Geoms, co \in outputs :
       \E size \in CommitSizes(views[1], serial) :
         SurfaceCommitOrder(1, serial, size, g, co)

SpecCommit == InitView /\ [][NextCommit]_vars

\* the compositor with one output or with none at all
InitHeadless ==
  /\ views = [v \in Views |-> NoView]
  /\ fullscreen_view = [o \in Outputs |-> NULL]
  /\ outputs \in {{}, {1}}
  /\ focus = NULL
  /\ maximize \in BOOLEAN
  /\ effects = NoEffects
  /\ track = [v \in Views |-> NoTrack]
  /\ cursor = phoc_cursor_init
  /\ touch_points = [i \in TouchIds |-> NoTouchPoint]
  /\ seat_touch = NoSeatTouch
  /\ children = [c \in ChildIds |-> NoChild]
  /\ tree = [v \in TreeViews |-> NoTreeView]
  /\ probe = NoProbe
  /\ steps = 0
  /\ pointer = NoPointer
  /\ layers = [l \in LayerIds |-> NoLayerSurface]

\* one toplevel that is maximized, tiled and restored with the output left
\* to the compositor
NextHeadless ==
  \/ \E hasParent \in BOOLEAN :
       handle_xdg_shell_surface(1, hasParent, FALSE, FALSE, NULL)
  \/ \E g \in Geoms, co \in OptOutputs : \E size \in MapSizes(views[1]) :
       (co = NULL <=> outputs = {}) /\ handle_map(1, size, g, co)
  \/ \E maximized \in BOOLEAN : handle_request_maximize(1, maximized)
  \/ MaximizeView(1, NULL)
  \/ \E d \in {"LEFT", "RIGHT"} : TileView(1, d, NULL)
  \/ \E serial \in 0..MaxSerial, g \in Geoms, co \in OptOutputs :
       \E size \in CommitSizes(views[1], serial) :
         (co = NULL <=> outputs = {}) /\ SurfaceCommit(1, serial, size, g, co)

SpecHeadless == InitHeadless /\ [][NextHeadless]_vars

\* the desktop at rest after the clients' surfaces were created and mapped,
\* whatever the pointer and the layer surfaces do
RestingDesktop ==
  /\ views = [v \in Views |-> NoView]
  /\ fullscreen_view = [o \in Outputs |-> NULL]
  /\ outputs = Outputs
  /\ focus = NULL
  /\ maximize = FALSE
  /\ effects = NoEffects
  /\ track = [v \in Views |-> NoTrack]
  /\ cursor = phoc_cursor_init
  /\ touch_points = [i \in TouchIds |-> NoTouchPoint]
  /\ seat_touch = NoSeatTouch
  /\ children = [c \in ChildIds |-> NoChild]
  /\ tree = [v \in TreeViews |-> NoTreeView]
  /\ probe = NoProbe
  /\ steps = 3

\* the constraints the clients have created on their surfaces
ClientConstraints ==
  {NoConstraint} \cup [type : {"LOCKED", "CONFINED"}, region : Regions,
                       active : {FALSE}]

InitConstraint ==
  /\ RestingDesktop
  /\ pointer \in {[NoPointer EXCEPT !.constraints = cs] :
                    cs \in [Surfaces -> ClientConstraints]}
  /\ layers = [l \in LayerIds |-> NoLayerSurface]

\* relative motions of the pointer
Deltas == {<<2, 0>>, <<-3, 0>>, <<0, 2>>, <<0, -3>>}

NextConstraint ==
  \/ \E d \in Deltas : handle_pointer_motion(d[1], d[2])
  \/ \E ex \in AbsXs, ey \in AbsYs : pointer_motion_absolute(ex, ey)
  \/ \E s \in Surfaces, region \in Regions : handle_constraint_commit(s, region)
  \/ \E x \in ViewXs : ViewMoved(x)

SpecConstraint == InitConstraint /\ [][NextConstraint]_vars

InitImage ==
  /\ RestingDesktop
  /\ pointer = NoPointer
  /\ layers = [l \in LayerIds |-> NoLayerSurface]

\* the pointer roams, grabs begin and end, clients ask for cursor images
NextImage ==
  \/ \E ex \in AbsXs, ey \in AbsYs : pointer_motion_absolute(ex, ey)
  \/ GrabBegin
  \/ GrabEnd
  \/ \E client \in Clients, surface \in CursorImages :
       RequestSetCursor(client, surface)

SpecImage == InitImage /\ [][NextImage]_vars

\* several toplevels competing for the outputs' fullscreen slots
NextSlot ==
  \/ \E v \in Views, fullscreen \in BOOLEAN, o \in OptOutputs :
       handle_xdg_shell_surface(v, FALSE, FALSE, fullscreen, o)
  \/ \E v \in Views, co \in outputs : \E size \in MapSizes(views[v]) :
       handle_map(v, size, 0, co)
  \/ \E v \in Views : handle_unmap(v)
  \/ \E v \in Views : handle_destroy(v)
  \/ \E v \in Views, fullscreen \in BOOLEAN, o \in OptOutputs :
       handle_request_fullscreen(v, fullscreen, o)
  \/ \E v \in Views \cup {NULL} : SetFocus(v)
  \/ \E v \in Views, d \in {"LEFT", "RIGHT"} : view_move_to_next_output(v, d)

SpecSlot == InitView /\ [][NextSlot]_vars

\* one mapped floating toplevel with focus, as left after three steps by
\* handle_xdg_shell_surface, handle_map and the commit acking the activation
GrabbableView ==
  [phoc_view_init(FALSE) EXCEPT !.life = "mapped", !.box = Box(2, 1, 2, 2)]

CursorStart ==
  /\ views = [v \in Views |-> IF v = 1 THEN GrabbableView ELSE NoView]
  /\ fullscreen_view = [o \in Outputs |-> NULL]
  /\ outputs = Outputs
  /\ focus = 1
  /\ maximize = FALSE
  /\ effects = NoEffects
  /\ track = [v \in Views |-> NoTrack]
  /\ cursor = phoc_cursor_init
  /\ touch_points = [i \in TouchIds |-> NoTouchPoint]
  /\ seat_touch = NoSeatTouch
  /\ children = [c \in ChildIds |-> NoChild]
  /\ steps = 3
  /\ pointer = NoPointer
  /\ layers = [l \in LayerIds |-> NoLayerSurface]

InitCursor ==
  /\ CursorStart
  /\ tree = [v \in TreeViews |-> NoTreeView]
  /\ probe = NoProbe

\* positions visited during a grab: the left edge, the toplevel and the second
\* output; the top edge and below it
GrabXs == {0, 9, 21}
GrabYs == {0, 10}

\* a grab on the toplevel: pointer and touch input, the client's commits, the
\* toplevel or an output going away
NextCursor ==
  \/ handle_request_move(1)
  \/ \E edges \in {{"LEFT", "TOP"}, {"RIGHT", "BOTTOM"}} : handle_request_resize(1, edges)
  \/ \E ex \in GrabXs, ey \in GrabYs : handle_pointer_motion_absolute(ex, ey)
  \/ \E button \in {"LEFT", "RIGHT"}, state \in {"PRESSED", "RELEASED"}, meta \in BOOLEAN :
       handle_pointer_button(button, state, meta)
  \/ \E ex \in GrabXs, ey \in GrabYs : phoc_cursor_handle_touch_down(0, ex, ey)
  \/ \E ex \in GrabXs, ey \in GrabYs : phoc_cursor_handle_touch_motion(0, ex, ey)
  \/ phoc_cursor_handle_touch_up(0)
  \/ \E serial \in 1..MaxSerial, co \in outputs :
       \E size \in CommitSizes(views[1], serial) :
         SurfaceCommit(1, serial, size, 0, co)
  \/ handle_destroy(1)
  \/ \E o \in Outputs : handle_output_destroy(o)

SpecCursor == InitCursor /\ [][NextCursor]_vars

\* the client asks for grabs at any time, while pointer and touch input moves
\* the cursor and ends grabs
NextRequest ==
  \/ \E seat \in {NULL, 1} : ClientRequestMove(1, seat)
  \/ \E edges \in {{"LEFT", "TOP"}, {"RIGHT", "BOTTOM"}}, seat \in {NULL, 1} :
       ClientRequestResize(1, edges, seat)
  \/ \E ex \in GrabXs, ey \in GrabYs : handle_pointer_motion_absolute(ex, ey)
  \/ \E button \in {"LEFT", "RIGHT"}, state \in {"PRESSED", "RELEASED"}, meta \in BOOLEAN :
       handle_pointer_button(button, state, meta)
  \/ \E ex \in GrabXs, ey \in GrabYs : phoc_cursor_handle_touch_down(0, ex, ey)
  \/ phoc_cursor_handle_touch_up(0)

SpecRequest == InitCursor /\ [][NextRequest]_vars

\* gestures: the cursor as phoc_cursor_init leaves it, over the toplevel
InitGesture ==
  /\ views = [v \in Views |-> IF v = 1 THEN GrabbableView ELSE NoView]
  /\ fullscreen_view = [o \in Outputs |-> NULL]
  /\ outputs = Outputs
  /\ focus = 1
  /\ maximize = FALSE
  /\ effects = NoEffects
  /\ track = [v \in Views |-> NoTrack]
  /\ cursor = phoc_cursor_init
  /\ touch_points = [i \in TouchIds |-> NoTouchPoint]
  /\ seat_touch = NoSeatTouch
  /\ children = [c \in ChildIds |-> NoChild]
  /\ steps = 3
  /\ pointer = [NoPointer EXCEPT !.gestures = <<GestureDrag>>]
  /\ layers = [l \in LayerIds |-> NoLayerSurface]
  /\ tree = [v \in TreeViews |-> NoTreeView]
  /\ probe = NoProbe

\* recognizers are registered while pointer and touch input arrives and the
\* toplevel is grabbed
NextGesture ==
  \/ \E gesture \in Gestures \ {GestureDrag} : phoc_cursor_add_gesture(gesture)
  \/ handle_request_move(1)
  \/ \E ex \in GrabXs, ey \in GrabYs : handle_pointer_motion_absolute(ex, ey)
  \/ \E state \in {"PRESSED", "RELEASED"}, meta \in BOOLEAN :
       handle_pointer_button("LEFT", state, meta)
  \/ \E id \in TouchIds : phoc_cursor_handle_touch_down(id, 9, 10)
  \/ \E id \in TouchIds : phoc_cursor_handle_touch_motion(id, 21, 10)
  \/ \E id \in TouchIds : phoc_cursor_handle_touch_up(id)

SpecGesture == InitGesture /\ [][NextGesture]_vars

\* layer surfaces come, map, unmap and go, by their clients or with their output
InitLayer ==
  /\ RestingDesktop
  /\ pointer = NoPointer
  /\ layers = [l \in LayerIds |-> NoLayerSurface]

NextLayer ==
  \/ \E l \in LayerIds, o \in Outputs : LayerSurfaceNew(l, o)
  \/ \E l \in LayerIds, n \in 0..1 : LayerSurfaceMap(l, n)
  \/ \E l \in LayerIds : LayerSurfaceNewSubsurface(l)
  \/ \E l \in LayerIds : LayerSurfaceUnmap(l)
  \/ \E l \in LayerIds, drop \in SUBSET CallbackIds : LayerSurfaceDestroy(l, drop)
  \/ \E l \in LayerIds, id \in CallbackIds : LayerSurfaceAddFrameCallback(l, id)
  \/ \E l \in LayerIds, id \in CallbackIds : LayerSurfaceRemoveFrameCallback(l, id)
  \/ \E o \in Outputs : handle_output_destroy(o)

SpecLayer == InitLayer /\ [][NextLayer]_vars

\* the pointer moves over a decorated toplevel, its border, a layer surface
\* and the bare layout; the seat denies input to some clients
InitHover ==
  /\ RestingDesktop
  /\ \E denied \in {{}, {1}, {2}} :
       pointer = [NoPointer EXCEPT !.decorated = TRUE, !.denied = denied]
  /\ layers = [l \in LayerIds |-> NoLayerSurface]

NextHover ==
  \/ \E ex \in AbsXs, ey \in HoverYs : pointer_motion_absolute(ex, ey)
  \/ \E button \in {"LEFT", "RIGHT"}, state \in {"PRESSED", "RELEASED"} :
       pointer_button(button, state, 0)
  \/ \E id \in TouchIds, ex \in AbsXs : touch_down(id, ex, 0, 0)
  \/ \E id \in TouchIds, ex \in AbsXs : touch_motion(id, ex, 0)
  \/ \E id \in TouchIds : touch_up(id)
  \/ \E denied \in {{}, {1}, {2}} : SeatPolicy(denied)

SpecHover == InitHover /\ [][NextHover]_vars

\* layer surfaces of the shell: bars along the top and the bottom edge, panels
\* along the left and the right edge, a surface in the top left corner and
\* one that covers the output
ShellAnchors ==
  {{"LEFT", "RIGHT", "TOP"}, {"LEFT", "RIGHT", "BOTTOM"},
   {"TOP", "BOTTOM", "LEFT"}, {"TOP", "BOTTOM", "RIGHT"},
   {"TOP", "LEFT"}, {"TOP", "BOTTOM", "LEFT", "RIGHT"}}

ShellLayers == [output : Outputs, layer : {"TOP", "OVERLAY"}, anchor : ShellAnchors]

\* pointer and touch input near the edges of outputs with and without a
\* fullscreen view, with one layer surface of the shell or none
InitReveal ==
  /\ RestingDesktop
  /\ \E scene \in {{}} \cup {{ls} : ls \in ShellLayers}, fs \in {{}, {1}, {1, 2}} :
       pointer = [NoPointer EXCEPT !.shell_layers = scene, !.fullscreen = fs]
  /\ layers = [l \in LayerIds |-> NoLayerSurface]

NextReveal ==
  \/ \E ex \in {0, 15, 21}, ey \in {0, 30} : pointer_motion_absolute(ex, ey)
  \/ pointer_button("LEFT", "PRESSED", PointerThreshold)
  \/ \E ex \in RevealXs, ey \in RevealYs : touch_down(0, ex, ey, TouchThreshold)

SpecReveal == InitReveal /\ [][NextReveal]_vars

\* touch input on the toplevel and beside it
NextTouch ==
  \/ \E id \in TouchIds, ex \in AbsXs, ey \in AbsYs :
       phoc_cursor_handle_touch_down(id, ex, ey)
  \/ \E id \in TouchIds, ex \in AbsXs, ey \in AbsYs :
       phoc_cursor_handle_touch_motion(id, ex, ey)
  \/ \E id \in TouchIds : phoc_cursor_handle_touch_up(id)

SpecTouch == InitCursor /\ [][NextTouch]_vars

\* two touch points and an interactive move of the toplevel
NextPrimary ==
  \/ \E id \in TouchIds, ex \in GrabXs, ey \in GrabYs :
       phoc_cursor_handle_touch_down(id, ex, ey)
  \/ \E id \in TouchIds : phoc_cursor_handle_touch_motion(id, 9, 10)
  \/ \E id \in TouchIds : phoc_cursor_handle_touch_up(id)
  \/ handle_request_move(1)

SpecPrimary == InitCursor /\ [][NextPrimary]_vars

\* the subsurfaces of the toplevel come, map, unmap and go
NextChild ==
  \/ \E c \in ChildIds, parent \in ChildIds \cup {NULL}, mapped \in BOOLEAN :
       subsurface_create(c, parent, mapped)
  \/ \E c \in ChildIds : subsurface_handle_map(c)
  \/ \E c \in ChildIds : subsurface_handle_unmap(c)
  \/ \E c \in ChildIds : phoc_view_child_destroy(c)

SpecChild == InitCursor /\ [][NextChild]_vars

\* the surface of the decorated toplevel and the points probed around it:
\* each edge, each band boundary and one point on either side of it
DecoSurface == Size(100, 50)
DecoXs == {-5, -4, -3, -2, -1, 0, 1, 50, 99, 100, 101, 102, 103, 104, 105}
DecoYs == {-17, -16, -15, -13, -12, -11, -6, -2, -1, 0, 1, 20, 49, 50, 51, 52,
           53, 54, 55}

InitDeco ==
  /\ CursorStart
  /\ tree = [v \in TreeViews |-> NoTreeView]
  /\ probe \in [op : {"deco_point"}, decorated : BOOLEAN, sx : DecoXs, sy : DecoYs]

\* the pointer is over the decoration: view_get_deco_part of its position
DecoHitTest ==
  /\ probe.op = "deco_point"
  /\ probe' = [op |-> "deco_part", decorated |-> probe.decorated,
               sx |-> probe.sx, sy |-> probe.sy,
               part |-> view_get_deco_part(
                          phoc_view_set_decoration(probe.decorated,
                                                   PHOC_DECO_TITLEBAR_HEIGHT,
                                                   PHOC_DECO_BORDER_WIDTH),
                          DecoSurface.width, DecoSurface.height,
                          probe.sx, probe.sy)]
  /\ UNCHANGED <<views, fullscreen_view, outputs, focus, maximize, effects, track,
                 cursor, touch_points, seat_touch, children, tree, pointer,
                 layers, steps>>

NextDeco == DecoHitTest

SpecDeco == InitDeco /\ [][NextDeco]_vars

\* three toplevels of one client, none transient for another yet
InitParent ==
  /\ CursorStart
  /\ tree = [v \in TreeViews |-> [NoTreeView EXCEPT !.alive = TRUE]]
  /\ probe = NoProbe

NextParent ==
  \/ \E v \in TreeViews : TreeCreate(v)
  \/ \E v \in TreeViews, parent \in TreeViews \cup {NULL} : handle_set_parent(v, parent)
  \/ \E v \in TreeViews : TreeDestroy(v)

SpecParent == InitParent /\ [][NextParent]_vars

\* boxes on output 1, across both outputs, on output 2, off the layout, empty
FollowBoxes ==
  {Box(x, y, w, 2) : x \in {-3, 0, 4, 8}, y \in {0, 5}, w \in {0, 2, 4}}

InitFollow ==
  /\ CursorStart
  /\ tree = [v \in TreeViews |-> NoTreeView]
  /\ probe \in [op : {"follow_box"}, mapped : BOOLEAN, handle : BOOLEAN,
                 box : FollowBoxes, scale : {Half, Unit},
                 has_before : BOOLEAN, before : FollowBoxes]

\* view_update_position, view_update_size: the tail call of view_update_output
FollowOutput ==
  /\ probe.op = "follow_box"
  /\ probe' = [op |-> "follow", mapped |-> probe.mapped, handle |-> probe.handle,
               box |-> probe.box, scale |-> probe.scale,
               has_before |-> probe.has_before, before |-> probe.before,
               calls |-> view_update_output(probe.mapped, probe.handle,
                                            view_get_box(probe.box, probe.scale),
                                            probe.has_before, probe.before,
                                            outputs)]
  /\ UNCHANGED <<views, fullscreen_view, outputs, focus, maximize, effects, track,
                 cursor, touch_points, seat_touch, children, tree, pointer,
                 layers, steps>>

NextFollow == FollowOutput

SpecFollow == InitFollow /\ [][NextFollow]_vars

\* a new xdg toplevel of size 2x2 or 4x2 at the origin, not yet mapped, that
\* is then mapped, moved and resized
EnterSizes == {Size(2, 2), Size(4, 2)}
EnterXs == {0, 4, 7}

InitEnter ==
  /\ CursorStart
  /\ tree = [v \in TreeViews |-> NoTreeView]
  /\ probe \in [op : {"enter_new"}, mapped : {FALSE},
                 box : {Box(0, 0, s.width, s.height) : s \in EnterSizes},
                 state : {"FLOATING", "MAXIMIZED"}, fullscreen_output : {NULL},
                 geom : {0}, pending_centering : BOOLEAN,
                 log : {[o \in Outputs |-> << >>]}]

EnterStep(F, op) ==
  /\ Tick
  /\ probe' = [F EXCEPT !.op = op]
  /\ UNCHANGED <<views, fullscreen_view, outputs, focus, maximize, effects, track,
                 cursor, touch_points, seat_touch, children, tree, pointer,
                 layers>>

\* the map handler of the view: phoc_view_map, then phoc_view_setup
EnterSetup(co) ==
  /\ ~probe.mapped
  /\ EnterStep(LogSetup(probe, co), "setup")

\* a position update of the mapped view
EnterPosition(x, y) ==
  /\ probe.mapped
  /\ EnterStep(LogPosition(probe, x, y), "update_position")

\* a commit of the mapped view with a new size
EnterSize(size, co) ==
  /\ probe.mapped
  /\ EnterStep(LogSize(probe, size.width, size.height, co), "update_size")

NextEnter ==
  \/ \E co \in outputs : EnterSetup(co)
  \/ \E x \in EnterXs, y \in {0, 5} : EnterPosition(x, y)
  \/ \E size \in EnterSizes, co \in outputs : EnterSize(size, co)

SpecEnter == InitEnter /\ [][NextEnter]_vars

\* one mapped floating toplevel with box B and no auto-maximize, taken through
\* maximize, tile and fullscreen on its own output, then restored; the client
\* commits the sizes it is asked for.  probe keeps B and the phase
SavedBoxes == {Box(2, 1, 2, 2), Box(1, 1, 4, 2)}

InitSaved ==
  /\ \E B \in SavedBoxes :
       /\ views = [v \in Views |-> IF v = 1 THEN [GrabbableView EXCEPT !.box = B]
                                   ELSE NoView]
       /\ probe = [op |-> "saved", box |-> B, phase |-> "changing"]
  /\ fullscreen_view = [o \in Outputs |-> NULL]
  /\ outputs = Outputs
  /\ focus = 1
  /\ maximize = FALSE
  /\ effects = NoEffects
  /\ track = [v \in Views |-> NoTrack]
  /\ cursor = phoc_cursor_init
  /\ touch_points = [i \in TouchIds |-> NoTouchPoint]
  /\ seat_touch = NoSeatTouch
  /\ children = [c \in ChildIds |-> NoChild]
  /\ tree = [v \in TreeViews |-> NoTreeView]
  /\ steps = 0
  /\ pointer = NoPointer
  /\ layers = [l \in LayerIds |-> NoLayerSurface]

SavedStep(world, op, phase) ==
  /\ Done(world, 1, op)
  /\ probe' = [probe EXCEPT !.phase = phase]
  /\ UNCHANGED <<outputs, focus, maximize, track, cursor, touch_points,
                 seat_touch, children, tree, pointer, layers>>

\* view_maximize(view, NULL)
SavedMaximize ==
  /\ probe.phase = "changing"
  /\ SavedStep(WithView(1, view_maximize(views[1], NULL)), "maximize", "changing")

\* view_tile(view, direction, NULL)
SavedTile(direction) ==
  /\ probe.phase = "changing"
  /\ SavedStep(WithView(1, view_tile(views[1], direction, NULL)), "tile",
               "changing")

\* phoc_view_set_fullscreen(view, fullscreen, NULL)
SavedFullscreen(fullscreen) ==
  /\ probe.phase = "changing"
  /\ SavedStep(phoc_view_set_fullscreen(World, 1, fullscreen, NULL),
               IF fullscreen THEN "fullscreen" ELSE "unfullscreen", "changing")

\* view_restore, which ends the sequence
SavedRestore ==
  /\ probe.phase = "changing"
  /\ SavedStep(WithView(1, view_restore(views[1])), "restore", "restored")

\* the client acks a configure and commits the size it asked for
SavedCommit(serial, co) ==
  /\ serial \in 1..Len(views[1].confs)
  /\ views[1].confs[serial].width > 0
  /\ CommitStep(1, serial, views[1].confs[serial], views[1].geom, co)
  /\ UNCHANGED <<outputs, focus, maximize, NonView>>

NextSaved ==
  \/ SavedMaximize
  \/ \E d \in {"LEFT", "RIGHT"} : SavedTile(d)
  \/ \E fullscreen \in BOOLEAN : SavedFullscreen(fullscreen)
  \/ SavedRestore
  \/ \E serial \in 1..MaxSerial, co \in outputs : SavedCommit(serial, co)

SpecSaved == InitSaved /\ [][NextSaved]_vars

\* box sizes of the scaled view: none, fitting, oversized in either direction
ScaleWidths == {0, 4, 6, 8, 14}
ScaleHeights == {0, 3, 4, 8}

InitScale ==
  /\ CursorStart
  /\ tree = [v \in TreeViews |-> NoTreeView]
  /\ probe \in [op : {"scale_new"}, width : {0}, height : {0}, scale : {Unit},
                 fullscreen : {FALSE}, state : {"FLOATING", "MAXIMIZED", "TILED"},
                 scale_to_fit : {FALSE}, global : BOOLEAN,
                 want_scaling : BOOLEAN, ran : {FALSE}, output : {NULL},
                 calls : {{}}]

ScaleStep(S, op) ==
  /\ probe' = [S EXCEPT !.op = op]
  /\ UNCHANGED <<views, fullscreen_view, outputs, focus, maximize, effects, track,
                 cursor, touch_points, seat_touch, children, tree, pointer,
                 layers, steps>>

\* view_update_size: a commit with a new size
ScaleUpdateSize(width, height, output) ==
  /\ probe.width # width \/ probe.height # height
  /\ ScaleStep(view_update_scale([probe EXCEPT !.width = width,
                                               !.height = height], output),
               "update_size")

\* phoc_view_set_scale_to_fit
phoc_view_set_scale_to_fit(enable, output) ==
  /\ probe.scale_to_fit # enable
  /\ ScaleStep(view_update_scale([probe EXCEPT !.scale_to_fit = enable], output),
               "set_scale_to_fit")

\* the desktop's scale-to-fit setting changes: on_global_scale_to_fit_changed
on_global_scale_to_fit_changed(enable, output) ==
  /\ probe.global # enable
  /\ ScaleStep(view_update_scale([probe EXCEPT !.global = enable], output),
               "global_scale_to_fit")

\* phoc_view_set_fullscreen: the view enters or leaves fullscreen; its size
\* follows with the client's next commit
ScaleSetFullscreen(fullscreen) ==
  /\ probe.fullscreen # fullscreen
  /\ ScaleStep([probe EXCEPT !.fullscreen = fullscreen, !.ran = FALSE,
                             !.calls = {}], "set_fullscreen")

NextScale ==
  \/ \E w \in ScaleWidths, h \in ScaleHeights, o \in Outputs :
       ScaleUpdateSize(w, h, o)
  \/ \E enable \in BOOLEAN, o \in Outputs : phoc_view_set_scale_to_fit(enable, o)
  \/ \E enable \in BOOLEAN, o \in Outputs : on_global_scale_to_fit_changed(enable, o)
  \/ \E fullscreen \in BOOLEAN : ScaleSetFullscreen(fullscreen)

SpecScale == InitScale /\ [][NextScale]_vars

----------------------------------------------------------------------------
(* Claims about the view state machine *)

\* C1: an output's fullscreen slot names view v exactly when v's fullscreen
\* output is that output, so a view replaced in the slot by another view's
\* set_fullscreen is no longer fullscreen.
C1_SlotMatchesFullscreenOutput ==
  \A o \in Outputs, v \in Views :
    fullscreen_view[o] = v <=>
      (views[v].life # "none" /\ views[v].fullscreen_output = o)

\* C2: maximizing a floating, non-fullscreen view with a non-empty box and
\* then restoring it, with auto-maximize off, no other request in between
\* and a client that commits the sizes it is asked for, returns the view's
\* box to the box it had before the maximize.
C2_RestoreReturnsBox ==
  \A v \in Views :
    (/\ track[v].phase = "restored"
     /\ views[v].confs = << >>
     /\ views[v].geom = track[v].geom)
    => views[v].box = track[v].box

\* a step that starts or ends with live view v fullscreen
FullscreenStep(v) ==
  /\ views[v].life # "none" /\ views'[v].life # "none"
  /\ view_is_fullscreen(views[v]) \/ view_is_fullscreen(views'[v])

\* phoc_view_set_fullscreen(v, false, NULL) took view v out of fullscreen
LeftFullscreen(v) ==
  /\ view_is_fullscreen(views[v]) /\ ~view_is_fullscreen(views'[v])
  /\ effects'.op = "unfullscreen"

\* C3 as stated: entering and then leaving fullscreen leaves the view in
\* exactly the state (FLOATING, MAXIMIZED, TILED) and tile direction it had.
C3_FullscreenKeepsStateAlways ==
  [][\A v \in Views : FullscreenStep(v) =>
        /\ views'[v].state = views[v].state
        /\ views'[v].tile_direction = views[v].tile_direction]_vars

\* C3: entering and then leaving fullscreen leaves the view in exactly the
\* state and tile direction it had, unless the view is subject to the
\* auto-maximize policy: leaving fullscreen then leaves it MAXIMIZED.
C3_FullscreenKeepsState ==
  [][\A v \in Views : FullscreenStep(v) =>
        /\ views'[v].tile_direction = views[v].tile_direction
        /\ views'[v].state =
             IF LeftFullscreen(v) /\ phoc_view_want_auto_maximize(views[v])
             THEN "MAXIMIZED" ELSE views[v].state]_vars

\* a tiled view has just left fullscreen and is tiled to the right again
C3_Witness ==
  /\ effects.op = "unfullscreen" /\ "set_fullscreen" \in effects.calls
  /\ views[1].life = "mapped" /\ view_is_tiled(views[1])
  /\ views[1].tile_direction = "RIGHT"

\* C4: view_maximize on a view that is already maximized, for its current
\* output (given explicitly or as NULL), changes nothing and makes no call:
\* no move/resize request, no set_maximized/set_tiled, no damage.
C4_MaximizeAgainIsNoOp ==
  \A v \in Views :
    (views[v].life = "mapped" /\ view_is_maximized(views[v])) =>
      \A output \in {NULL, view_get_output(views[v])} :
        view_maximize(views[v], output) = views[v]

----------------------------------------------------------------------------
(* Claims about the cursor's grabs and the edge-snap suggestion *)

InGrab == cursor.mode \in {"MOVE", "RESIZE"}

\* the cursor is within the snap threshold of the top edge of its output
AtTopEdge(C) ==
  LET o == wlr_output_layout_output_at(outputs, C.x, C.y)
  IN o # NULL /\ C.y < wlr_output_layout_get_box(o).y + PHOC_EDGE_SNAP_THRESHOLD

\* the cursor is within the snap threshold of an edge that snaps
AtSnapEdge(C) ==
  LET o == wlr_output_layout_output_at(outputs, C.x, C.y)
      b == wlr_output_layout_get_box(o)
  IN o # NULL /\ (\/ C.y < b.y + PHOC_EDGE_SNAP_THRESHOLD
                  \/ /\ b.width > b.height
                     /\ \/ C.x < b.x + PHOC_EDGE_SNAP_THRESHOLD
                        \/ C.x > b.x + b.width - PHOC_EDGE_SNAP_THRESHOLD)

\* this step is a pointer or touch motion that drags floating view v
MoveStep(v) ==
  /\ effects'.op \in {"motion", "touch_motion"}
  /\ steps' # steps
  /\ cursor.mode = "MOVE" /\ focus = v /\ effects'.view = v
  /\ view_is_floating(views[v])

\* this step is a button release or the touch-up of a tracked point in a grab
ReleaseStep ==
  /\ steps' # steps
  /\ InGrab
  /\ \/ effects'.op = "button_release"
     \/ /\ effects'.op = "touch_up"
        /\ touch_points[effects'.touch.id].tracked

\* C5: while a floating view is moved interactively, every motion that puts
\* the cursor within the snap threshold of the top edge leaves a MAXIMIZED
\* suggestion for the view and the view FLOATING; every motion that puts the
\* cursor at no snap edge leaves no suggestion, and a release without
\* suggestion leaves the view FLOATING.
C5_TopEdgeSuggestsMaximize ==
  [][\A v \in Views :
       /\ (MoveStep(v) /\ AtTopEdge(cursor'))
            => /\ cursor'.view_state.view = v
               /\ cursor'.view_state.state = "MAXIMIZED"
               /\ views'[v].state = "FLOATING"
       /\ (MoveStep(v) /\ ~AtSnapEdge(cursor'))
            => /\ cursor'.view_state.view = NULL
               /\ views'[v].state = "FLOATING"
       /\ (/\ ReleaseStep /\ focus = v /\ cursor.view_state.view = NULL
           /\ view_is_floating(views[v]))
            => views'[v].state = "FLOATING"]_vars

\* C6: every button release and every touch-up of a tracked touch point that
\* arrives during a grab applies the pending suggestion, if any, drops the
\* preview, and leaves the cursor in PASSTHROUGH with the hovered view
\* re-resolved under the cursor.
C6_ReleaseEndsGrab ==
  [][ReleaseStep =>
       /\ cursor'.mode = "PASSTHROUGH"
       /\ cursor'.view_state.view = NULL
       /\ ~cursor'.view_state.rect /\ ~cursor'.view_state.anim
       /\ cursor'.pointer_view = phoc_desktop_surface_at(views', cursor'.x, cursor'.y)
       /\ \A v \in Views :
            cursor.view_state.view = v
              => /\ views'[v].state = cursor.view_state.state
                 /\ cursor.view_state.state = "TILED"
                      => views'[v].tile_direction = cursor.view_state.tile_dir]_vars

\* C7: when the focus view of a grab is destroyed, the cursor is back in
\* PASSTHROUGH and neither its suggestion nor its hover refers to the view.
C7_DestroyCancelsGrab ==
  [][\A v \in Views :
       (/\ effects'.op = "destroy" /\ effects'.view = v /\ steps' # steps
        /\ InGrab /\ focus = v)
         => /\ cursor'.mode = "PASSTHROUGH"
            /\ cursor'.view_state.view # v
            /\ cursor'.pointer_view # v]_vars

\* a grab with a pending suggestion ended with the destruction of view 1
C7_Witness ==
  /\ effects.op = "destroy" /\ effects.view = 1
  /\ views[1].life = "none"
  /\ cursor.mode = "PASSTHROUGH"
  /\ cursor.view_state.rect
  /\ cursor.view_state.view = NULL

\* C8: when the view or the output of a pending suggestion is destroyed, the
\* cursor is left without view and output reference and without preview
\* rectangle and animation, and a release that follows changes no view state.
C8_SuggestionCancelledCleanly ==
  [][/\ (/\ steps' # steps
         /\ cursor.view_state.view # NULL
         /\ \/ effects'.op = "destroy" /\ effects'.view = cursor.view_state.view
            \/ effects'.op = "output_destroy"
               /\ cursor.view_state.output \notin outputs')
          => /\ cursor'.view_state.view = NULL
             /\ cursor'.view_state.output = NULL
             /\ ~cursor'.view_state.rect
             /\ ~cursor'.view_state.anim
     /\ (ReleaseStep /\ cursor.view_state.output \notin outputs)
          => \A v \in Views : views'[v].state = views[v].state]_vars

----------------------------------------------------------------------------
(* Claims about view children and the touch-point registry *)

\* the children reached from c along parent links, c included
RECURSIVE Chain(_, _)
Chain(c, seen) ==
  IF c = NULL \/ c \in seen THEN seen
  ELSE Chain(children[c].parent, seen \cup {c})

\* C9: a view child counts as mapped exactly when its own mapped flag and the
\* mapped flag of every ancestor are set.
C9_MappedIsConjunctionOverAncestors ==
  \A c \in ChildIds :
    children[c].alive =>
      (phoc_view_child_is_mapped(children, c)
         <=> \A a \in Chain(c, {}) : children[a].mapped)

\* a child whose own flag is set under an unmapped parent does not count as mapped
C9_Witness ==
  \E c \in ChildIds :
    /\ children[c].alive /\ children[c].mapped
    /\ children[c].parent # NULL
    /\ ~children[children[c].parent].mapped
    /\ ~phoc_view_child_is_mapped(children, c)

TouchStep(op) == steps' # steps /\ effects'.op = op

OthersKept(id) ==
  \A j \in TouchIds \ {id} : touch_points'[j] = touch_points[j]

\* C10: a touch-down of an untracked id tracks it at the reported position, a
\* touch-motion of a tracked id moves it to the reported position, a touch-up
\* of a tracked id leaves it untracked, each leaving the other entries alone;
\* a touch-motion of an untracked id changes nothing and reports the failure.
C10_TouchRegistryRoundTrip ==
  [][LET e == effects'.touch
         at == [tracked |-> TRUE, lx |-> e.x, ly |-> e.y]
     IN /\ (TouchStep("touch_down") /\ ~touch_points[e.id].tracked)
             => touch_points'[e.id] = at /\ OthersKept(e.id)
        /\ (TouchStep("touch_motion") /\ touch_points[e.id].tracked)
             => touch_points'[e.id] = at /\ OthersKept(e.id)
        /\ (TouchStep("touch_motion") /\ ~touch_points[e.id].tracked)
             => /\ touch_points' = touch_points
                /\ "g_critical" \in effects'.calls
                /\ UNCHANGED <<views, cursor, seat_touch, focus>>
        /\ (TouchStep("touch_up") /\ touch_points[e.id].tracked)
             => /\ ~phoc_cursor_get_touch_point(touch_points', e.id)
                /\ OthersKept(e.id)]_vars

\* a point that went down on the toplevel is tracked where a motion took it
C10_Witness ==
  /\ effects.op = "touch_motion" /\ effects.touch.id = 1
  /\ effects.calls = {}
  /\ seat_touch.points = {1}
  /\ touch_points[1] = [tracked |-> TRUE, lx |-> 7, ly |-> 2]
  /\ phoc_desktop_surface_at(views, 7, 2) = NULL

----------------------------------------------------------------------------
(* Claims about touch input *)

\* C11: a touch-down of an id that is already tracked is reported as critical
\* and is otherwise a no-op: the tracked point keeps its coordinates and the
\* seat, the cursor and the views are left alone.
C11_DuplicateTouchDownIsNoOp ==
  [][LET e == effects'.touch
     IN (TouchStep("touch_down") /\ touch_points[e.id].tracked)
          => /\ "g_critical" \in effects'.calls
             /\ touch_points' = touch_points
             /\ UNCHANGED <<views, cursor, seat_touch, focus>>]_vars

\* C12: a touch-down while the seat has no primary touch id and the cursor is
\* in PASSTHROUGH mode becomes the primary touch; a touch-down while there is a
\* primary touch leaves it; the primary id changes from an id only by the
\* touch-up of that id, which resets it to none.
C12_PrimaryTouchNotUsurped ==
  [][LET e == effects'.touch
     IN /\ (TouchStep("touch_down") /\ seat_touch.touch_id = -1
                                     /\ cursor.mode = "PASSTHROUGH")
             => seat_touch'.touch_id = e.id
        /\ (TouchStep("touch_down") /\ seat_touch.touch_id # -1)
             => seat_touch'.touch_id = seat_touch.touch_id
        /\ (TouchStep("touch_up") /\ seat_touch.touch_id = e.id)
             => seat_touch'.touch_id = -1
        /\ (seat_touch.touch_id # -1 /\ seat_touch'.touch_id # seat_touch.touch_id)
             => /\ TouchStep("touch_up") /\ e.id = seat_touch.touch_id
                /\ seat_touch'.touch_id = -1]_vars

\* touch 1 is the primary touch and the later touch-down of 0 did not take over
C12_Witness ==
  /\ effects.op = "touch_down" /\ effects.touch.id = 0
  /\ seat_touch.touch_id = 1
  /\ touch_points[0].tracked /\ touch_points[1].tracked

----------------------------------------------------------------------------
(* Claims about the decoration hit-test *)

Probed == probe.op = "deco_part" /\ probe.decorated
InLeftBand == -PHOC_DECO_BORDER_WIDTH < probe.sx /\ probe.sx < 0
InRightBand ==
  /\ DecoSurface.width < probe.sx
  /\ probe.sx < DecoSurface.width + PHOC_DECO_BORDER_WIDTH
InBottomBand ==
  /\ DecoSurface.height < probe.sy
  /\ probe.sy < DecoSurface.height + PHOC_DECO_BORDER_WIDTH
\* the band over the titlebar
InTopBand ==
  /\ -(PHOC_DECO_TITLEBAR_HEIGHT + PHOC_DECO_BORDER_WIDTH) < probe.sy
  /\ probe.sy <= -PHOC_DECO_TITLEBAR_HEIGHT
Corner ==
  /\ probe.sx < 0 \/ probe.sx > DecoSurface.width
  /\ probe.sy < 0 \/ probe.sy > DecoSurface.height
\* outside the box of the decorated view (view_get_deco_box)
BeyondDeco ==
  \/ probe.sx < -PHOC_DECO_BORDER_WIDTH
  \/ probe.sx > DecoSurface.width + PHOC_DECO_BORDER_WIDTH
  \/ probe.sy < -(PHOC_DECO_TITLEBAR_HEIGHT + PHOC_DECO_BORDER_WIDTH)
  \/ probe.sy > DecoSurface.height + PHOC_DECO_BORDER_WIDTH

\* C13 as stated: every point outside two adjacent edges of the surface at
\* once is classified NONE; (-2,-2) yields NONE.
C13_CornersAreNone ==
  (Probed /\ Corner) => probe.part = {}

\* C13 amended: a corner point inside the bands of two adjacent edges gets the
\* border parts of both edges ((-2,-2) yields LEFT_BORDER|TOP_BORDER); a
\* corner point beyond the decoration is classified NONE.
C13_CornersGetBothBorders ==
  Probed =>
    /\ (InLeftBand \/ InRightBand) /\ (InBottomBand \/ (probe.sy < 0 /\ ~BeyondDeco))
         => probe.part =
              (IF InLeftBand THEN {"LEFT_BORDER"} ELSE {"RIGHT_BORDER"})
              \cup (IF InBottomBand THEN {"BOTTOM_BORDER"} ELSE {"TOP_BORDER"})
    /\ (probe.sx = -2 /\ probe.sy = -2)
         => probe.part = {"LEFT_BORDER", "TOP_BORDER"}
    /\ (Corner /\ BeyondDeco) => probe.part = {}

\* the point (-2,-2) of the decorated toplevel was classified
C13_Witness ==
  Probed /\ probe.sx = -2 /\ probe.sy = -2 /\ probe.part # {}

\* C14: for a decorated view the hit-test returns TITLEBAR exactly for
\* 0 < x < width and -titlebar_height < y < 0; a point in the border-width
\* band outside exactly one edge (beside the surface, below it, or over the
\* titlebar) gets exactly that edge's border part; (50,-6) is TITLEBAR,
\* (-2,20) is LEFT_BORDER, (50,52) is BOTTOM_BORDER; an undecorated view
\* always yields NONE.
C14_TitlebarAndBorders ==
  LET beside == 0 <= probe.sy /\ probe.sy <= DecoSurface.height
      along == 0 <= probe.sx /\ probe.sx <= DecoSurface.width
  IN /\ (probe.op = "deco_part" /\ ~probe.decorated) => probe.part = {}
     /\ Probed =>
          /\ probe.part = {"TITLEBAR"}
               <=> /\ 0 < probe.sx /\ probe.sx < DecoSurface.width
                   /\ -PHOC_DECO_TITLEBAR_HEIGHT < probe.sy /\ probe.sy < 0
          /\ "TITLEBAR" \in probe.part => probe.part = {"TITLEBAR"}
          /\ (InLeftBand /\ beside) => probe.part = {"LEFT_BORDER"}
          /\ (InRightBand /\ beside) => probe.part = {"RIGHT_BORDER"}
          /\ (InBottomBand /\ along) => probe.part = {"BOTTOM_BORDER"}
          /\ (InTopBand /\ along) => probe.part = {"TOP_BORDER"}
          /\ (probe.sx = 50 /\ probe.sy = -6) => probe.part = {"TITLEBAR"}
          /\ (probe.sx = -2 /\ probe.sy = 20) => probe.part = {"LEFT_BORDER"}
          /\ (probe.sx = 50 /\ probe.sy = 52) => probe.part = {"BOTTOM_BORDER"}

\* the point (50,-6) of the decorated toplevel is on the titlebar
C14_Witness ==
  Probed /\ probe.sx = 50 /\ probe.sy = -6 /\ probe.part = {"TITLEBAR"}

----------------------------------------------------------------------------
(* Claims about the transient-for tree *)

\* view a is reached from view v by following up to n parent links
RECURSIVE AncestorWithin(_, _, _, _)
AncestorWithin(t, v, a, n) ==
  /\ n > 0
  /\ t[v].parent # NULL
  /\ t[v].parent = a \/ AncestorWithin(t, t[v].parent, a, n - 1)

IsAncestor(t, v, a) == AncestorWithin(t, v, a, NumTreeViews)

\* C15: no view is its own ancestor; view_set_parent(v, p) with p = v or p a
\* descendant of v is rejected and changes no parent link and no stacking
\* list.
C15_NoViewIsItsOwnAncestor ==
  [][/\ \A v \in TreeViews : ~IsAncestor(tree', v, v)
     /\ (TouchStep("set_parent") /\ probe'.parent # NULL
           /\ (probe'.parent = probe'.view
                 \/ IsAncestor(tree, probe'.parent, probe'.view)))
          => /\ tree' = tree
             /\ "g_return_if_fail" \in effects'.calls]_vars

\* view 1 was asked to become transient for its grandchild 3 and was refused
C15_Witness ==
  /\ effects.op = "set_parent" /\ "g_return_if_fail" \in effects.calls
  /\ probe.op = "set_parent" /\ probe.view = 1 /\ probe.parent = 3
  /\ tree[3].parent = 2 /\ tree[2].parent = 1
  /\ tree[1].stack = <<2>> /\ tree[2].stack = <<3>>

----------------------------------------------------------------------------
(* Claims about output follow *)

\* C16: view_update_output run with a previous box equal to the view's
\* current box sends no enter and no leave notification, surface or
\* foreign-toplevel, to any output.
C16_OutputFollowIdempotent ==
  (/\ probe.op = "follow" /\ probe.has_before
   /\ probe.before = view_get_box(probe.box, probe.scale))
    => probe.calls = {}

\* a mapped view with a handle that lies across both outputs was followed with
\* its own box as the previous box
C16_Witness ==
  /\ probe.op = "follow" /\ probe.mapped /\ probe.handle /\ probe.has_before
  /\ probe.before = view_get_box(probe.box, probe.scale)
  /\ \A o \in Outputs : wlr_output_layout_intersects(o, probe.before)
  /\ probe.calls = {}

----------------------------------------------------------------------------
(* Claims about scale to fit *)

ScaleOps == {"scale_new", "update_size", "set_scale_to_fit",
             "global_scale_to_fit", "set_fullscreen"}

----------------------------------------------------------------------------
(* Claims about entering fullscreen, maximizing and restoring *)

\* the step is a fullscreen request for a mapped view without input focus
UnfocusedFullscreenStep(v) ==
  /\ steps' # steps /\ effects'.op = "fullscreen" /\ effects'.view = v
  /\ views[v].life = "mapped" /\ focus # v

FullscreenDenied(v) ==
  /\ ~view_is_fullscreen(views'[v])
  /\ fullscreen_view' = fullscreen_view
  /\ views'[v].box = views[v].box
  /\ views'[v].saved = views[v].saved
  /\ views'[v].state = views[v].state
  /\ "set_fullscreen" \notin effects'.calls

\* C18 as stated: set_fullscreen(v, true, o) on a mapped view v without input
\* focus is denied: v is not fullscreen afterwards, no output's fullscreen
\* slot has changed and v's box, saved box and state are unchanged.
C18_UnfocusedFullscreenDeniedAlways ==
  [][\A v \in Views : UnfocusedFullscreenStep(v) => FullscreenDenied(v)]_vars

\* C18 amended: the same for a view that is not fullscreen yet; a view that
\* is fullscreen already may be moved to another output without focus.
C18_UnfocusedFullscreenDenied ==
  [][\A v \in Views :
       (UnfocusedFullscreenStep(v) /\ ~view_is_fullscreen(views[v]))
         => FullscreenDenied(v)]_vars

\* a mapped view without focus asked for fullscreen and was refused
C18_Witness ==
  /\ effects.op = "fullscreen" /\ effects.view = 1 /\ effects.calls = {}
  /\ views[1].life = "mapped" /\ focus # 1
  /\ ~view_is_fullscreen(views[1])
  /\ \A o \in Outputs : fullscreen_view[o] = NULL

\* C19: while a view is fullscreen, view_maximize and view_tile leave its
\* state, tile direction, saved box, box and fullscreen output alone and send
\* no maximized or tiled flag to the client.
C19_FullscreenBlocksMaximizeAndTile ==
  [][\A v \in Views :
       (/\ steps' # steps /\ effects'.op \in {"maximize", "tile"}
        /\ effects'.view = v /\ view_is_fullscreen(views[v]))
         => /\ views'[v].state = views[v].state
            /\ views'[v].tile_direction = views[v].tile_direction
            /\ views'[v].saved = views[v].saved
            /\ views'[v].box = views[v].box
            /\ views'[v].fullscreen_output = views[v].fullscreen_output
            /\ fullscreen_view' = fullscreen_view
            /\ effects'.calls \cap {"set_maximized", "set_tiled"} = {}]_vars

\* a fullscreen view that was maximized before was asked to tile to the right
C19_Witness ==
  /\ effects.op = "tile" /\ effects.view = 1 /\ effects.calls = {}
  /\ view_is_fullscreen(views[1]) /\ views[1].life = "mapped"
  /\ views[1].state = "MAXIMIZED" /\ views[1].tile_direction = "LEFT"

\* C20: view_restore changes nothing (state, box, saved box, pending
\* centering, flags and sizes sent to the client) unless the view is
\* maximized or tiled and not under the auto-maximize policy; when it acts,
\* the view ends in state FLOATING.
C20_RestoreOnlyFromMaximizedOrTiled ==
  [][\A v \in Views :
       (steps' # steps /\ effects'.op = "restore" /\ effects'.view = v) =>
         IF /\ view_is_maximized(views[v]) \/ view_is_tiled(views[v])
            /\ ~(maximize /\ ~views[v].has_parent)
         THEN views'[v].state = "FLOATING"
         ELSE /\ views'[v].state = views[v].state
              /\ views'[v].box = views[v].box
              /\ views'[v].saved = views[v].saved
              /\ views'[v].pending_centering = views[v].pending_centering
              /\ views'[v].scheduled = views[v].scheduled
              /\ views'[v].confs = views[v].confs
              /\ effects'.calls = {}]_vars

\* under the auto-maximize policy a maximized view was asked to restore and
\* stayed maximized
C20_Witness ==
  /\ effects.op = "restore" /\ effects.view = 1 /\ effects.calls = {}
  /\ maximize /\ ~views[1].has_parent
  /\ view_is_maximized(views[1]) /\ views[1].life = "mapped"

\* position of the first occurrence of step a in the order, 0 if absent
StepAt(order, a) ==
  IF \E i \in DOMAIN order : order[i] = a
  THEN CHOOSE i \in DOMAIN order :
         order[i] = a /\ \A j \in DOMAIN order : order[j] = a => i <= j
  ELSE 0

\* step a, when taken, is taken before step b, when taken
Precedes(order, a, b) ==
  (StepAt(order, a) > 0 /\ StepAt(order, b) > 0)
    => StepAt(order, a) < StepAt(order, b)

\* C21: within one surface commit of a toplevel the size update, the
\* position update and the geometry-inset correction are all applied before
\* the damage of the commit is computed and before the pending move/resize
\* is finalized.
C21_GeometryBeforeDamageAndCompletion ==
  probe.op = "commit" =>
    \A g \in {"view_update_size", "view_update_position", "geometry_correction"} :
      /\ Precedes(probe.order, g, "phoc_view_apply_damage")
      /\ Precedes(probe.order, g, "pending_move_resize_configure_serial")

\* a commit of view v that leaves the configure of the pending move-resize
\* unacknowledged, and that changes neither the size nor the geometry inset
OlderCommitStep(v) ==
  /\ steps' # steps /\ effects'.op = "commit" /\ effects'.view = v
  /\ probe'.op = "commit"
  /\ AckConfigure(views[v], probe'.serial).pending_serial > configure_serial
  /\ views[v].pending_move_resize.update_x \/ views[v].pending_move_resize.update_y
  /\ views'[v].box.width = views[v].box.width
  /\ views'[v].box.height = views[v].box.height
  /\ ~views[v].pending_centering
  /\ StepAt(probe'.order, "geometry_correction") = 0

\* C22: after a move_resize request on an xdg toplevel that changes both
\* position and size, the position stays unchanged until the client commits
\* a surface state acknowledging the configure issued for the request; a
\* commit that acknowledges an older configure does not apply the position.
C22_PositionWaitsForAcknowledgingCommit ==
  [][\A v \in Views :
       OlderCommitStep(v) => /\ views'[v].box.x = views[v].box.x
                             /\ views'[v].box.y = views[v].box.y]_vars

\* C23: view_maximize or view_tile on a view for which no usable output can
\* be determined is a no-op: state, tile direction and box are unchanged and
\* no maximized/tiled flag is sent to the client.
C23_NoOutputMaximizeTileIsNoOp ==
  [][\A v \in Views :
       (/\ steps' # steps /\ effects'.op \in {"maximize", "tile"}
        /\ effects'.view = v
        /\ outputs = {})
       => /\ views'[v].state = views[v].state
          /\ views'[v].tile_direction = views[v].tile_direction
          /\ views'[v].box = views[v].box
          /\ effects'.calls \cap {"set_maximized", "set_tiled"} = {}]_vars

\* the active constraint changed from one constraint to another
ConstraintSwitched ==
  /\ pointer.active_constraint # NULL /\ pointer'.active_constraint # NULL
  /\ pointer'.active_constraint # pointer.active_constraint

\* C24: at most one pointer constraint is active per cursor; when
\* phoc_cursor_constrain takes a constraint other than the active one, the
\* old one receives 'deactivated' before the new one receives 'activated',
\* and the commit listener is attached to the new constraint's surface only.
C24_OneActiveConstraint ==
  /\ [](\A c \in Surfaces :
          pointer.constraints[c].active <=> pointer.active_constraint = c)
  /\ [](pointer.constraint_commit = pointer.active_constraint)
  /\ [][ConstraintSwitched =>
          \E i, j \in DOMAIN pointer'.log :
            /\ i < j
            /\ pointer'.log[i] = <<"deactivated", pointer.active_constraint>>
            /\ pointer'.log[j] = <<"activated", pointer'.active_constraint>>]_vars

\* the pointer went from the constrained layer surface straight to the
\* constrained view
C24_Witness ==
  /\ pointer.log = <<(<<"deactivated", 2>>), (<<"activated", 1>>)>>
  /\ pointer.active_constraint = 1 /\ pointer.constraint_commit = 1
  /\ ~pointer.constraints[2].active

\* a constraint of type locked is active
LockedActive(P) ==
  /\ P.active_constraint # NULL
  /\ P.constraints[P.active_constraint].type = "LOCKED"

\* a pointer motion event, relative or absolute, was handled
MotionStep ==
  /\ steps' # steps
  /\ effects'.op \in {"pointer_motion", "pointer_motion_absolute"}

\* C25: while a pointer constraint of type locked is active, the confine
\* region is empty and no pointer motion event (relative or absolute)
\* changes the cursor position.
C25_LockedPointerStaysPut ==
  /\ [](LockedActive(pointer) => pointer.confine = << >>)
  /\ [][(LockedActive(pointer) /\ MotionStep) =>
          (pointer'.x = pointer.x /\ pointer'.y = pointer.y)]_vars

\* C29: on every commit of the constrained surface: if the surface under the
\* cursor is no longer the constrained surface, pointer focus is re-resolved
\* and the constraint is cleared; otherwise the constraint is re-applied, so
\* that afterwards the confine region equals the constraint's current
\* region (for type confined).
C29_CommitRevalidatesConstraint ==
  [][\A c \in Surfaces :
       (/\ steps' # steps /\ effects'.op = "constraint_commit"
        /\ effects'.view = c
        /\ pointer.constraint_commit = c
        /\ ~pointer'.fault)
       => IF desktop_surface_at(pointer, pointer.x, pointer.y).surface # c
          THEN /\ pointer'.active_constraint # c
               /\ pointer'.focused_surface
                    = desktop_surface_at(pointer, pointer.x, pointer.y).surface
          ELSE /\ pointer'.active_constraint = c
               /\ pointer'.constraints[c].type = "CONFINED"
                    => pointer'.confine = pointer'.constraints[c].region]_vars

\* the requesting client owns the surface with pointer focus and the cursor
\* is in passthrough mode
MaySetCursor(P, client) ==
  /\ P.focused_surface # NULL /\ P.focused_surface = client
  /\ P.mode = "PASSTHROUGH"

\* C27: a request to set the cursor image takes effect only if the
\* requesting client owns the surface that has pointer focus and the cursor
\* is in PASSTHROUGH mode; in every other case the cursor image and the
\* recorded cursor client are unchanged.
C27_SetCursorOnlyFromFocusedClient ==
  [][(steps' # steps /\ effects'.op = "request_set_cursor") =>
       \/ MaySetCursor(pointer, effects'.view)
       \/ /\ pointer'.image = pointer.image
          /\ pointer'.cursor_client = pointer.cursor_client]_vars

\* the client under the pointer got its image; the other client was denied
C27_Witness ==
  /\ effects.op = "request_set_cursor" /\ effects.view = 1
  /\ pointer.focused_surface = 2 /\ pointer.cursor_client = 2
  /\ pointer.image = "hand"

\* C28: every event handed to the gesture system reaches all recognizers
\* registered on the cursor, in the order of their registration, and they see
\* the cursor mode and the primary touch as they were before the event's effect
HandedOn ==
  effects'.op \in {"touch_down", "motion", "button"}
    \/ (effects'.op = "touch_up" /\ phoc_cursor_get_touch_point(touch_points, effects'.touch.id))
    \/ (effects'.op = "touch_motion" /\ phoc_cursor_get_touch_point(touch_points, effects'.touch.id))

OutputCalls ==
  {"phoc_output_damage_whole_surface", "phoc_utils_wlr_surface_enter_output",
   "phoc_layer_shell_arrange", "phoc_output_set_layer_dirty",
   "phoc_output_add_frame_callback", "phoc_output_remove_frame_callback",
   "phoc_output_remove_frame_callbacks_by_animatable"}

CalledOp(L, op) == \E i \in DOMAIN L.calls : L.calls[i].op = op

\* C26: once the output of a layer surface is destroyed, nothing the layer
\* surface does later (unmap, frame callback removal, finalization) is done
\* with the output, and the output-destroy listener is unlinked once in the
\* life of the layer surface, never twice and never while it lives
C26_NoOutputUseAfterOutputDestroy ==
  \A l \in LayerIds :
    LET L == layers[l]
    IN L.life # "none" =>
         /\ ~L.fault
         /\ \A i \in DOMAIN L.calls :
              L.calls[i].op \in OutputCalls =>
                L.output # NULL /\ L.calls[i].output = L.output
         /\ L.life = "alive" =>
              /\ L.output \in outputs
              /\ L.output_destroy = "linked" /\ L.output_destroy_unlinks = 0
         /\ L.life = "finalized" =>
              L.output_destroy = "removed" /\ L.output_destroy_unlinks = 1

\* a mapped layer surface with subsurfaces and a frame callback went with its
\* output
C26_Witness ==
  \E l \in LayerIds :
    /\ layers[l].life = "finalized" /\ layers[l].output = NULL
    /\ effects.op = "output_destroy"
    /\ CalledOp(layers[l], "phoc_layer_subsurface_destroy")
    /\ CalledOp(layers[l], "phoc_layer_shell_update_focus")
    /\ layers[l].frame_callbacks # {}
    /\ layers[l].output_destroy_unlinks = 1

\* C30: at all times the new-subsurface listener of a layer surface is
\* registered exactly if the layer surface is mapped, and an unmapped one owns
\* no subsurfaces; the unmap handler finds the listener registered and leaves
\* the layer surface unmapped, without subsurfaces and without the listener
C30_UnmapUndoesMap ==
  /\ [](\A l \in LayerIds :
          layers[l].life # "none" =>
            /\ ~layers[l].fault
            /\ layers[l].new_subsurface = "linked" <=> layers[l].mapped
            /\ ~layers[l].mapped => layers[l].subsurfaces = 0)
  /\ [][effects'.op = "layer_unmap" =>
          /\ layers[effects'.view].new_subsurface = "linked"
          /\ ~layers'[effects'.view].mapped
          /\ layers'[effects'.view].subsurfaces = 0
          /\ layers'[effects'.view].new_subsurface = "removed"]_vars

\* a layer surface that had subsurfaces and two frame callbacks was unmapped
C30_Witness ==
  \E l \in LayerIds :
    /\ effects.op = "layer_unmap" /\ effects.view = l
    /\ layers[l].life = "alive" /\ ~layers[l].mapped
    /\ CalledOp(layers[l], "phoc_layer_subsurface_destroy")
    /\ layers[l].new_subsurface = "removed"
    /\ layers[l].frame_callbacks = {1, 2}

\* C31: destroying a view child takes it off the view and off its parent,
\* destroys no other child, and leaves each of its direct children alive,
\* without parent and with its own mapped flag false
C31_DestroyDetachesChildren ==
  [][effects'.op = "child_destroy" =>
       \E child \in ChildIds :
         /\ children[child].alive
         /\ children'[child] = NoChild
         /\ \A c \in ChildIds \ {child} :
              /\ children'[c].alive = children[c].alive
              /\ children'[c].parent # child
              /\ IF children[c].alive /\ children[c].parent = child
                 THEN children'[c].parent = NULL /\ ~children'[c].mapped
                 ELSE children'[c] = children[c]]_vars

\* child 2 was destroyed: children 1 and 3 live on, child 3 without parent
\* and unmapped
C31_Witness ==
  /\ effects.op = "child_destroy"
  /\ children[1].alive /\ children[1].parent = NULL /\ children[1].mapped
  /\ ~children[2].alive
  /\ children[3].alive /\ children[3].parent = NULL /\ ~children[3].mapped

\* what the pointer is over after the step
HoverNext == desktop_surface_at(pointer', pointer'.x, pointer'.y)

\* C32: the pointer hovered the decoration of a view; when the next
\* evaluation of what is under it finds a surface (that may have input),
\* another view or nothing, the view hovered before is told that its
\* decoration was left, and its button grab is gone
C32_DecorationLeftWhenHoverChanges ==
  [][(/\ effects'.op = "pointer_motion_absolute"
      /\ pointer.mode = "PASSTHROUGH"
      /\ pointer.pointer_view # NULL /\ pointer.wlr_surface = NULL
      /\ (HoverNext.surface # NULL \/ HoverNext.view # pointer.pointer_view)
      /\ (HoverNext.surface # NULL =>
            phoc_seat_allow_input(pointer, HoverNext.surface)))
     => /\ \E i \in DOMAIN pointer'.sent :
             pointer'.sent[i] = <<"deco_leave", pointer.pointer_view>>
        /\ ~pointer'.has_button_grab]_vars

\* C33: no handler of the cursor sends pointer enter, pointer motion, touch
\* down or touch motion to a surface whose client the seat denies input, and
\* an evaluation of what is under the pointer that finds such a surface
\* leaves the hovered view, the hovered surface and the cursor client alone
C33_NoInputToDeniedClients ==
  [][/\ \A i \in DOMAIN pointer'.sent :
          pointer'.sent[i][1] \in {"enter", "motion", "touch_down", "touch_motion"}
            => pointer'.sent[i][2] \notin pointer.denied
     /\ (/\ effects'.op = "pointer_motion_absolute"
         /\ pointer.mode = "PASSTHROUGH"
         /\ HoverNext.surface # NULL /\ HoverNext.surface \in pointer.denied)
        => /\ pointer'.pointer_view = pointer.pointer_view
           /\ pointer'.wlr_surface = pointer.wlr_surface
           /\ pointer'.cursor_client = pointer.cursor_client
           /\ pointer'.focused_surface = pointer.focused_surface]_vars

\* the pointer came from the layer surface onto the toplevel, whose client is
\* denied input: the layer surface keeps the pointer focus, and a touch
\* made no touch point
C33_Witness ==
  /\ pointer.denied = {1}
  /\ desktop_surface_at(pointer, pointer.x, pointer.y).surface = 1
  /\ pointer.focused_surface = 2 /\ pointer.cursor_client = 2
  /\ pointer.wlr_surface = 2
  /\ effects.op = "touch_down_at" /\ pointer.sent = << >>
  /\ \A id \in TouchIds : pointer.touch_surface[id] = NULL

\* is (lx, ly) within the threshold of an edge of the output along which a
\* layer surface of the top layer stretches: one anchored to that edge and to
\* the two edges across it, and to no other
InRevealZone(P, o, lx, ly, threshold) ==
  LET b == wlr_output_layout_get_box(o)
  IN \E ls \in P.shell_layers :
       /\ ls.output = o /\ ls.layer = "TOP"
       /\ \/ ls.anchor = {"LEFT", "RIGHT", "TOP"} /\ ly - b.y <= threshold
          \/ ls.anchor = {"LEFT", "RIGHT", "BOTTOM"}
               /\ (b.y + b.height - 1) - ly <= threshold
          \/ ls.anchor = {"TOP", "BOTTOM", "LEFT"} /\ lx - b.x <= threshold
          \/ ls.anchor = {"TOP", "BOTTOM", "RIGHT"}
               /\ (b.x + b.width - 1) - lx <= threshold

\* where the button or touch of the step is, and the threshold it is held to
RevealAt ==
  IF effects'.op = "touch_down_at"
  THEN [x |-> effects'.touch.x, y |-> effects'.touch.y]
  ELSE [x |-> pointer.x, y |-> pointer.y]

\* C35: a button or touch that is not on a layer surface turns the forced
\* reveal of the shell on for its output only if the output has a fullscreen
\* view and the position is within the threshold of an edge with a qualifying
\* layer surface, and turns it off when the position is in no such zone;
\* a layer surface that does not qualify makes no zone, and no other output
\* is touched
C35_ShellRevealPerEdge ==
  [][effects'.op \in {"touch_down_at", "pointer_button"} =>
       LET o == wlr_output_layout_output_at(outputs, RevealAt.x, RevealAt.y)
           target == desktop_surface_at(pointer, RevealAt.x, RevealAt.y).surface
           zone == InRevealZone(pointer, o, RevealAt.x, RevealAt.y, effects'.view)
       IN \A p \in Outputs :
            pointer'.force_shell_reveal[p] =
              IF p # o \/ target = 2 THEN pointer.force_shell_reveal[p]
              ELSE IF ~zone THEN FALSE
              ELSE IF o \in pointer.fullscreen THEN TRUE
              ELSE pointer.force_shell_reveal[p]]_vars

\* a touch one pixel below the top edge of output 1, which has a top bar and
\* a fullscreen view, forced the shell to show
C35_Witness ==
  /\ effects.op = "touch_down_at" /\ effects.view = 1
  /\ effects.touch.x = 3 /\ effects.touch.y = 1
  /\ pointer.shell_layers =
       {[output |-> 1, layer |-> "TOP", anchor |-> {"LEFT", "RIGHT", "TOP"}]}
  /\ pointer.fullscreen = {1}
  /\ pointer.force_shell_reveal[1]
  /\ pointer.sent = << >>

\* the restore or fullscreen exit of view v that finds no saved box
FindsEmptySaved(v) ==
  /\ effects'.view = v
  /\ views[v].life # "none"
  /\ wlr_box_empty(views[v].saved)
  /\ \/ /\ effects'.op = "restore"
        /\ view_is_maximized(views[v]) \/ view_is_tiled(views[v])
        /\ ~phoc_view_want_auto_maximize(views[v])
     \/ /\ effects'.op = "unfullscreen"
        /\ view_is_fullscreen(views[v])
        /\ views[v].state = "FLOATING"

\* view V sits in the middle of the usable area of some output
Centered(V) ==
  \E o \in Outputs :
    LET ua == usable_area(o)
        lo == wlr_output_layout_get_box(o)
    IN /\ V.box.x = TruncDiv2((ua.width - V.box.width) + 2 * (ua.x + lo.x - V.geom))
       /\ V.box.y = TruncDiv2((ua.height - V.box.height) + 2 * (ua.y + lo.y - V.geom))

\* C34: a restore or fullscreen exit that finds an empty saved box requests
\* size (0,0) and sets pending_centering; the next commit of the view centers
\* it and clears the flag, and no step other than a commit clears it
C34_CenteredOnNextCommit ==
  [][\A v \in Views :
       /\ FindsEmptySaved(v) =>
            /\ views'[v].scheduled = Size(0, 0)
            /\ views'[v].pending_centering
       /\ (views[v].pending_centering /\ views[v].life = "mapped"
           /\ views'[v].life = "mapped" /\ steps' # steps) =>
            IF effects'.view = v /\ effects'.op = "commit"
            THEN ~views'[v].pending_centering /\ Centered(views'[v])
            ELSE views'[v].pending_centering]_vars

\* the notifications alternate, beginning with enter
Alternates(log) ==
  \A i \in 1..Len(log) : log[i] = (IF i % 2 = 1 THEN "enter" ELSE "leave")

\* C36: for the mapped view and every output, the enter and leave
\* notifications sent for the output alternate, beginning with enter, and the
\* output has one more enter than leave exactly when the view's box
\* intersects it
C36_EnterLeaveAlternate ==
  (probe.op \in {"setup", "update_position", "update_size"} /\ probe.mapped) =>
    \A o \in Outputs :
      /\ Alternates(probe.log[o])
      /\ Len(probe.log[o]) % 2 = 1
           <=> wlr_output_layout_intersects(o, view_get_box(probe.box, Unit))

\* C37: whenever a pointer constraint is active the cursor's pointer_view is
\* not NULL, so activating a constraint and moving the pointer under one
\* never read through a NULL pointer_view
C37_ConstraintHasPointerView ==
  /\ pointer.active_constraint # NULL => pointer.pointer_view # NULL
  /\ ~pointer.fault

\* C38: maximize, tile and set_fullscreen overwrite the saved box only when
\* the view is floating at that moment; so a floating view with box B, taken
\* through any sequence of view_maximize, view_tile and fullscreen enter and
\* exit and then restored, is back at B once the client has committed what it
\* was asked for
C38_RestoreReturnsToFloatingBox ==
  /\ [][(effects'.op \in {"maximize", "tile", "fullscreen", "unfullscreen"}
         /\ steps' # steps /\ views'[1].saved # views[1].saved)
        => view_is_floating(views[1])]_vars
  /\ [](probe.op = "saved" /\ probe.phase = "restored" /\ views[1].confs = << >>
        /\ ~view_is_fullscreen(views[1])
        => views[1].box = probe.box)

\* a client's request for an interactive move or resize was handled
RequestStep ==
  /\ steps' # steps
  /\ effects'.op \in {"request_move", "request_resize"}

\* C39: a client's request to begin an interactive move or resize that finds
\* the cursor in a mode other than PASSTHROUGH leaves the cursor, its mode and
\* grab anchor included, and the views as they are; one that finds it in
\* PASSTHROUGH with a seat starts the grab asked for
C39_RequestIgnoredDuringGrab ==
  [][RequestStep =>
       IF cursor.mode # "PASSTHROUGH"
       THEN cursor' = cursor /\ views' = views
       ELSE cursor'.mode \in {"PASSTHROUGH",
                              IF effects'.op = "request_move" THEN "MOVE"
                              ELSE "RESIZE"}]_vars

\* a resize request arrived during a move grab away from the grab's start
C39_Witness ==
  /\ effects.op = "request_resize"
  /\ cursor.mode = "MOVE"
  /\ cursor.x # cursor.offs_x

\* C40: the cursor holds at most one suggestion, which has one preview
\* rectangle: while a suggestion is pending no step replaces it by another;
\* its view, target state, tile direction and rectangle stay as the first
\* suggest call set them until the suggestion is cleared or committed
C40_OnePendingSuggestion ==
  /\ [](cursor.view_state.view # NULL => cursor.view_state.rect)
  /\ [][cursor.view_state.view # NULL =>
          \/ cursor'.view_state.view = NULL
          \/ /\ cursor'.view_state.view = cursor.view_state.view
             /\ cursor'.view_state.state = cursor.view_state.state
             /\ cursor'.view_state.tile_dir = cursor.view_state.tile_dir
             /\ cursor'.view_state.rect = cursor.view_state.rect]_vars

\* the suggestion made at the left edge is still pending after the grabbed
\* toplevel was dragged on to the top edge
C40_Witness ==
  /\ cursor.mode = "MOVE"
  /\ effects.op = "motion"
  /\ cursor.y < PHOC_EDGE_SNAP_THRESHOLD
  /\ cursor.view_state.view = 1
  /\ cursor.view_state.state = "TILED"
  /\ cursor.view_state.tile_dir = "LEFT"

====
